---------------------------- MODULE Spec2Model ----------------------------
(***************************************************************************)
(* Smart Invoice Runner v3.2: the document parsing engine.                 *)
(*                                                                         *)
(* Three levels of text are modelled, each as fine as its code needs:      *)
(*  - normalize_text works on a sequence of lexemes (the words its         *)
(*    patterns name, in canonical and in other casing, the white space     *)
(*    and dash characters, and other characters);                          *)
(*  - map_primary_from_custref works on sequences of characters;           *)
(*  - the parsers, the vendor detection and the dispatch work on a         *)
(*    sequence of lines, each line a record of its kind and payload, as    *)
(*    the regular expressions of the parsers tell the kinds apart.         *)
(***************************************************************************)
EXTENDS Integers, Sequences, FiniteSets, TLC

(***************************************************************************)
(* Bounds of the model.                                                    *)
(***************************************************************************)
MaxChunks == 3
MaxPasses == 2
MaxRefLen == 3
MaxMapLen == 2
MaxBlocks == 2
MaxLines == 3

(***************************************************************************)
(* Python values.  A str is a sequence of strings (characters where the    *)
(* code looks inside it, tokens otherwise), "" is <<>>.  An Optional value *)
(* is <<>> (None) or <<x>>.  A float is [float |-> cents], and a field     *)
(* that holds a float or a str holds [float |-> c] or [str |-> s].         *)
(***************************************************************************)
NoneV == <<>>
Some(x) == <<x>>
EmptyStr == <<>>
Float(c) == [float |-> c]
StrV(s) == [str |-> s]

\* bool(x) of an Optional[str]: None and "" are falsy.
Truthy(o) == o # <<>> /\ o[1] # <<>>
\* a or b
PyOr(a, b) == IF Truthy(a) THEN a ELSE b
\* x or ""
OrEmpty(o) == IF Truthy(o) THEN o[1] ELSE EmptyStr

RECURSIVE Concat(_)
Concat(ss) == IF ss = <<>> THEN <<>> ELSE Head(ss) \o Concat(Tail(ss))

(***************************************************************************)
(* normalize_text, over lexemes.                                           *)
(* A lexeme is a word of the anchor phrases ("Total" in the canonical      *)
(* capitalisation, "total" in any other), a white space character, a dash  *)
(* or another character.  No pattern of normalize_text matches a part of   *)
(* a lexeme.                                                               *)
(***************************************************************************)
CanonWords == {"Total", "Transportation", "Charge", "Billing", "Reference",
               "Summary", "Order", "Customer", "Number", "Invoice", "Period"}

lower(x) ==
    CASE x = "Total" -> "total"
      [] x = "Transportation" -> "transportation"
      [] x = "Charge" -> "charge"
      [] x = "Billing" -> "billing"
      [] x = "Reference" -> "reference"
      [] x = "Summary" -> "summary"
      [] x = "Order" -> "order"
      [] x = "Customer" -> "customer"
      [] x = "Number" -> "number"
      [] x = "Invoice" -> "invoice"
      [] x = "Period" -> "period"
      [] x = "S" -> "s"
      [] OTHER -> x

\* \s of a str pattern, for the characters the model has.
IsSpace(x) == x \in {" ", "\t", "\n", "nbsp"}

\* A pattern is a sequence of items: a word (matched ignoring case, re.I),
\* "\\s*", an optional lexeme of a set, a required lexeme of a set.
W(w)    == [k |-> "word", w |-> w, set |-> {}]
WS      == [k |-> "ws", w |-> "", set |-> {}]
Opt(S)  == [k |-> "opt", w |-> "", set |-> S]
One(S)  == [k |-> "one", w |-> "", set |-> S]

\* The position after the match of pat[p..] at text[i..], or 0 if there is
\* none.  Every item is greedy and no item can take what the next one needs,
\* so the greedy match is the match of re.
RECURSIVE MatchEnd(_, _, _, _)
MatchEnd(pat, p, text, i) ==
    IF p > Len(pat) THEN i
    ELSE LET it == pat[p] IN
         CASE it.k = "ws" ->
                IF i <= Len(text) /\ IsSpace(text[i])
                THEN MatchEnd(pat, p, text, i + 1)
                ELSE MatchEnd(pat, p + 1, text, i)
           [] it.k = "opt" ->
                IF i <= Len(text) /\ text[i] \in it.set
                THEN MatchEnd(pat, p + 1, text, i + 1)
                ELSE MatchEnd(pat, p + 1, text, i)
           [] it.k = "one" ->
                IF i <= Len(text) /\ text[i] \in it.set
                THEN MatchEnd(pat, p + 1, text, i + 1)
                ELSE 0
           [] OTHER ->
                IF i <= Len(text) /\ lower(text[i]) = it.w
                THEN MatchEnd(pat, p + 1, text, i + 1)
                ELSE 0

\* re.sub(pat, repl, text): the leftmost matches, not overlapping.
RECURSIVE ReSub(_, _, _, _)
ReSub(pat, repl, text, i) ==
    IF i > Len(text) THEN <<>>
    ELSE LET e == MatchEnd(pat, 1, text, i) IN
         IF e > i THEN repl \o ReSub(pat, repl, text, e)
         ELSE <<text[i]>> \o ReSub(pat, repl, text, i + 1)

\* text.replace("\xa0", " ").replace("\u200b", " ").replace("\ufb01", "fi")
RECURSIVE ReplaceChars(_)
ReplaceChars(text) ==
    IF text = <<>> THEN <<>>
    ELSE LET x == Head(text) IN
         (CASE x \in {"nbsp", "zwsp"} -> <<" ">>
            [] x = "lig" -> <<"f", "i">>
            [] OTHER -> <<x>>) \o ReplaceChars(Tail(text))

\* re.sub(r"[\t ]+", " ", text)
RECURSIVE CollapseBlanks(_)
CollapseBlanks(text) ==
    IF text = <<>> THEN <<>>
    ELSE IF Head(text) \in {" ", "\t"}
         THEN IF Len(text) > 1 /\ text[2] \in {" ", "\t"}
              THEN CollapseBlanks(Tail(text))
              ELSE <<" ">> \o CollapseBlanks(Tail(text))
         ELSE <<Head(text)>> \o CollapseBlanks(Tail(text))

Dashes2 == {"-", "en"}
Dashes3 == {"-", "en", "em"}

BillingReference1 == <<"Billing", " ", "Reference", " ", "1">>
TotalsBillingReference1 == <<"Total", "s", ":", " ">> \o BillingReference1

PatBillingReference1 ==
    <<W("billing"), WS, W("reference"), WS, W("1")>>

NormRule3(t) == ReSub(<<W("total"), WS, W("transportation"), WS, W("charge"), W("s")>>,
                      <<"Total", " ", "Charge">>, t, 1)
NormRule4(t) == ReSub(<<W("total"), WS, W("charge")>>,
                      <<"Total", " ", "Charge">>, t, 1)
NormRule5(t) == ReSub(<<W("total"), W("s"), W(":"), WS>> \o PatBillingReference1
                         \o <<WS, One(Dashes2), WS>>,
                      TotalsBillingReference1 \o <<" ", "-", " ">>, t, 1)
NormRule6(t) == ReSub(<<W("summary"), WS, Opt(Dashes3), WS>> \o PatBillingReference1,
                      <<"Summary", " ", "-", " ">> \o BillingReference1, t, 1)
NormRule7(t) == ReSub(<<W("total"), Opt({"s", "S"}), W(":"), WS>> \o PatBillingReference1,
                      TotalsBillingReference1, t, 1)
NormRule8(t) == ReSub(<<W("order"), WS, W("total"), WS, W(":")>>,
                      <<"Order", " ", "Total", ":">>, t, 1)
NormRule9(t) == ReSub(PatBillingReference1, BillingReference1, t, 1)
NormRule10(t) == ReSub(<<W("customer"), WS, W("number")>>,
                       <<"Customer", " ", "Number">>, t, 1)
NormRule11(t) == ReSub(<<W("invoice"), WS, W("number")>>,
                       <<"Invoice", " ", "Number">>, t, 1)
NormRule12(t) == ReSub(<<W("invoice"), WS, W("period")>>,
                       <<"Invoice", " ", "Period">>, t, 1)

normalize_text(text) ==
    IF text = <<>> THEN <<>>
    ELSE NormRule12(NormRule11(NormRule10(NormRule9(NormRule8(NormRule7(
         NormRule6(NormRule5(NormRule4(NormRule3(
         CollapseBlanks(ReplaceChars(text))))))))))))

(***************************************************************************)
(* Utilities on character strings.                                         *)
(***************************************************************************)
IsBlank(c) == c \in {" ", "\t"}

RECURSIVE LStrip(_)
LStrip(s) == IF s # <<>> /\ IsBlank(Head(s)) THEN LStrip(Tail(s)) ELSE s

RECURSIVE RStrip(_)
RStrip(s) == IF s # <<>> /\ IsBlank(s[Len(s)])
             THEN RStrip(SubSeq(s, 1, Len(s) - 1)) ELSE s

\* s.strip()
Strip(s) == RStrip(LStrip(s))

\* re.sub(r"\s+", " ", s)
RECURSIVE CollapseSpace(_)
CollapseSpace(s) ==
    IF s = <<>> THEN <<>>
    ELSE IF IsBlank(Head(s))
         THEN IF Len(s) > 1 /\ IsBlank(s[2])
              THEN CollapseSpace(Tail(s))
              ELSE <<" ">> \o CollapseSpace(Tail(s))
         ELSE <<Head(s)>> \o CollapseSpace(Tail(s))

soft_clean(s) == Strip(CollapseSpace(s))

\* str.lower(), for the letters the model has.
LowerChar(c) ==
    CASE c = "A" -> "a"
      [] c = "B" -> "b"
      [] OTHER -> c

str_lower(s) == [i \in 1..Len(s) |-> LowerChar(s[i])]

\* sub in s
Contains(s, sub) ==
    \E i \in 0..(Len(s) - Len(sub)) :
        \A j \in 1..Len(sub) : s[i + j] = sub[j]

Digits == <<"0", "1", "2", "3", "4", "5", "6", "7", "8", "9">>
IsDigit(c) == \E i \in 1..10 : Digits[i] = c
DigitVal(c) == (CHOOSE i \in 1..10 : Digits[i] = c) - 1

RECURSIVE DecimalVal(_)
DecimalVal(ds) ==
    IF ds = <<>> THEN 0
    ELSE 10 * DecimalVal(SubSeq(ds, 1, Len(ds) - 1)) + DigitVal(ds[Len(ds)])

RECURSIVE Without(_, _)
Without(s, drop) ==
    IF s = <<>> THEN <<>>
    ELSE IF Head(s) \in drop THEN Without(Tail(s), drop)
         ELSE <<Head(s)>> \o Without(Tail(s), drop)

\* float(s) of a string of digits and points, in cents: the model's amounts
\* have at most two decimals.  <<>> when float raises.
FloatOf(s) ==
    LET dots == {i \in 1..Len(s) : s[i] = "."}
        ok == /\ \A i \in 1..Len(s) : IsDigit(s[i]) \/ s[i] = "."
              /\ Cardinality(dots) <= 1
              /\ \E i \in 1..Len(s) : IsDigit(s[i])
        d == IF dots = {} THEN Len(s) + 1 ELSE CHOOSE i \in dots : TRUE
        whole == SubSeq(s, 1, d - 1)
        frac == SubSeq(s, d + 1, Len(s))
        f2 == IF Len(frac) = 0 THEN <<"0", "0">>
              ELSE IF Len(frac) = 1 THEN frac \o <<"0">>
              ELSE SubSeq(frac, 1, 2)
    IN IF ok THEN Some(Float(100 * DecimalVal(whole) + DecimalVal(f2)))
       ELSE NoneV

\* amount_to_float: an Optional[str] to an Optional[float].
amount_to_float(o) ==
    IF o = NoneV THEN NoneV
    ELSE FloatOf(Without(o[1], {",", "$"}))

\* A date string is <<format, date>>; try_parse_date gives the ISO form of
\* the formats it knows and the string itself otherwise.
IsoFormat == "%Y-%m-%d"
TryFormats == {"%b %d, %Y", "%B %d, %Y", "%Y-%m-%d", "%m/%d/%Y"}
try_parse_date(d) ==
    IF d # <<>> /\ d[1] \in TryFormats THEN <<IsoFormat, d[2]>> ELSE d

(***************************************************************************)
(* The client code map: a dict, as the sequence of its items in insertion  *)
(* order, the keys distinct.                                               *)
(***************************************************************************)
FirstMatch(m, P(_)) ==
    LET hits == {i \in 1..Len(m) : P(m[i].k)}
    IN IF hits = {} THEN 0 ELSE CHOOSE i \in hits : \A j \in hits : i <= j

\* map_primary_from_custref without its third tier.
MapNoSubstring(cust, m) ==
    IF cust = <<>> \/ m = <<>> THEN EmptyStr
    ELSE LET ref == soft_clean(cust)
             Exact(k) == k = ref
             NoCase(k) == str_lower(ref) = str_lower(k)
             e1 == FirstMatch(m, Exact)
             e2 == FirstMatch(m, NoCase)
         IN IF e1 # 0 THEN m[e1].v
            ELSE IF e2 # 0 THEN m[e2].v
            ELSE EmptyStr

\* map_primary_from_custref with the substring tier before the
\* case-insensitive one.
MapSubstringBeforeNoCase(cust, m) ==
    IF cust = <<>> \/ m = <<>> THEN EmptyStr
    ELSE LET ref == soft_clean(cust)
             Exact(k) == k = ref
             NoCase(k) == str_lower(ref) = str_lower(k)
             Sub(k) == k # <<>> /\ Contains(str_lower(ref), str_lower(k))
             e1 == FirstMatch(m, Exact)
             e2 == FirstMatch(m, NoCase)
             e3 == FirstMatch(m, Sub)
         IN IF e1 # 0 THEN m[e1].v
            ELSE IF e3 # 0 THEN m[e3].v
            ELSE IF e2 # 0 THEN m[e2].v
            ELSE EmptyStr

map_primary_from_custref(cust, m) ==
    IF cust = <<>> \/ m = <<>> THEN EmptyStr
    ELSE LET ref == soft_clean(cust)
             Exact(k) == k = ref
             NoCase(k) == str_lower(ref) = str_lower(k)
             Sub(k) == k # <<>> /\ Contains(str_lower(ref), str_lower(k))
             e1 == FirstMatch(m, Exact)
             e2 == FirstMatch(m, NoCase)
             e3 == FirstMatch(m, Sub)
         IN IF e1 # 0 THEN m[e1].v
            ELSE IF e2 # 0 THEN m[e2].v
            ELSE IF e3 # 0 THEN m[e3].v
            ELSE EmptyStr

(***************************************************************************)
(* The text the parsers read: the normalized text of a file, as the        *)
(* sequence of its lines.  A line is [k, a, b]: k names what the line is   *)
(* (the patterns of the parsers tell the kinds apart), a and b are the     *)
(* strings the patterns capture in it.                                     *)
(*   "Ship Date:"     Ship Date: Jan 02, 2025                              *)
(*   "Tracking ID"    Tracking ID: <a>                                     *)
(*   "Cust. Ref."     Cust. Ref.: <a>                                      *)
(*   "Sender"         Sender <a>                                           *)
(*   "Total Charge"   Total Charge USD $<a>                                *)
(*   "continued"      continued on next page / Tracking ID: <a> continued  *)
(*   "Other Charges"  Other Charges USD <a>                                *)
(*   "Late Fee"       Late Fee 01/02/25 <a>                                *)
(*   "FedEx"          FedEx                                                *)
(*   "USDA"           USDA                                                 *)
(*   "FedEx header"   Invoice Number <a> Invoice Date <b>                  *)
(***************************************************************************)
Line(k, a, b) == [k |-> k, a |-> a, b |-> b]

\* The first index of a line of s, from index i on, that satisfies P; 0 if none.
First(s, i, P(_)) ==
    LET hits == {j \in i..Len(s) : P(s[j])}
    IN IF hits = {} THEN 0 ELSE CHOOSE j \in hits : \A h \in hits : j <= h

\* The last index of a line of s that satisfies P; 0 if none.
Last(s, P(_)) ==
    LET hits == {j \in 1..Len(s) : P(s[j])}
    IN IF hits = {} THEN 0 ELSE CHOOSE j \in hits : \A h \in hits : j >= h

(***************************************************************************)
(* FedExParser.                                                            *)
(***************************************************************************)
\* TRACK_RX takes 9 to 18 digits.
TrackingIds == {"111111111", "222222222"}

MatchesTRACK_RX(l) == l.k \in {"Tracking ID", "continued"} /\ l.a[1] \in TrackingIds
MatchesCONT_RX(l) == l.k = "continued"
MatchesCUST_REF_RX(l) == l.k = "Cust. Ref."
MatchesSENDER_RX(l) == l.k = "Sender"
MatchesTOTAL_RX(l) == l.k = "Total Charge"
MatchesOTHER_CHARGES_RX(l) == l.k = "Other Charges"
MatchesLATE_FEE_RX(l) == l.k = "Late Fee"
\* \bUSD\b, ignoring case
MatchesUSD_RX(l) == l.k \in {"Total Charge", "Other Charges", "USD"}
\* "USD" in pdf_text
HasUSD(l) == l.k \in {"Total Charge", "Other Charges", "USD", "USDA"}

\* iter_ship_blocks: the blocks start at each "Ship Date:"; the last one ends
\* with the text, and what precedes the first start is in no block.
IsShipDate(l) == l.k = "Ship Date:"
ShipStarts(text) == {i \in 1..Len(text) : IsShipDate(text[i])}
NextStart(text, i) ==
    LET later == {j \in ShipStarts(text) : j > i}
    IN IF later = {} THEN Len(text) + 1
       ELSE CHOOSE j \in later : \A h \in later : j <= h
RECURSIVE BlocksFrom(_, _)
BlocksFrom(text, i) ==
    IF i > Len(text) THEN <<>>
    ELSE <<SubSeq(text, i, NextStart(text, i) - 1)>>
             \o BlocksFrom(text, NextStart(text, i))
\* iter_ship_blocks, were the text from the last "Ship Date:" on left out.
IterShipBlocksDropsTail(text) ==
    IF ShipStarts(text) = {} THEN <<>>
    ELSE LET bs == BlocksFrom(text, NextStart(text, 0))
         IN SubSeq(bs, 1, Len(bs) - 1)

iter_ship_blocks(text) ==
    IF ShipStarts(text) = {} THEN <<>>
    ELSE BlocksFrom(text, NextStart(text, 0))

\* extract_sender_name, of the tokens after "Sender": what precedes the first
\* "Gelfand", or the first three tokens when nothing precedes it.  The names
\* of the model are shorter than the 80 characters kept.
extract_sender_name(s) ==
    LET g == {i \in 1..Len(s) : s[i] = "Gelfand"}
        cut == IF g = {} THEN s
               ELSE SubSeq(s, 1, (CHOOSE i \in g : \A j \in g : i <= j) - 1)
    IN IF cut # <<>> THEN cut
       ELSE SubSeq(s, 1, IF Len(s) < 3 THEN Len(s) ELSE 3)

\* parse_invoice_header: the first "Invoice Number <no>" that an
\* "Invoice Date <Mon d, yyyy>" follows, with the first such date after it.
HasInvoiceNumber(l) == l.k \in {"FedEx header", "Lightning header"}
HasInvoiceDate(l) == l.k = "FedEx header"
parse_invoice_header(text) ==
    LET d == Last(text, HasInvoiceDate)
        n0 == First(text, 1, HasInvoiceNumber)
    IN IF d = 0 \/ n0 = 0 \/ n0 > d THEN [inv_no |-> NoneV, inv_date |-> NoneV]
       ELSE [inv_no |-> Some(text[n0].a),
             inv_date |-> Some(try_parse_date(text[First(text, n0, HasInvoiceDate)].b))]

\* parse_other_charges, were the "Late Fee" line looked for first.
ParseOtherChargesLateFeeFirst(text) ==
    LET m == First(text, 1, MatchesOTHER_CHARGES_RX)
        m2 == First(text, 1, MatchesLATE_FEE_RX)
    IN IF m2 # 0 THEN amount_to_float(Some(text[m2].a))
       ELSE IF m # 0 THEN amount_to_float(Some(text[m].a))
       ELSE NoneV

\* parse_other_charges: the first "Other Charges" amount, else the first
\* "Late Fee" amount; None also when the amount found is no number.
parse_other_charges(text) ==
    LET m == First(text, 1, MatchesOTHER_CHARGES_RX)
        m2 == First(text, 1, MatchesLATE_FEE_RX)
    IN IF m # 0 THEN amount_to_float(Some(text[m].a))
       ELSE IF m2 # 0 THEN amount_to_float(Some(text[m2].a))
       ELSE NoneV

is_usd(text) == \E i \in 1..Len(text) : MatchesUSD_RX(text[i])

\* The fields parse takes from one block.
BlockFields(blk) ==
    LET mref == First(blk, 1, MatchesCUST_REF_RX)
        msend == First(blk, 1, MatchesSENDER_RX)
        mtot == Last(blk, MatchesTOTAL_RX)
        mtrk == First(blk, 1, MatchesTRACK_RX)
    IN [cust_line |-> IF mref # 0 THEN Some(Strip(blk[mref].a)) ELSE NoneV,
        sender    |-> IF msend # 0 THEN Some(extract_sender_name(blk[msend].a)) ELSE NoneV,
        total_amt |-> IF mtot # 0 THEN amount_to_float(Some(blk[mtot].a)) ELSE NoneV,
        tracking  |-> IF mtrk # 0 THEN Some(blk[mtrk].a) ELSE NoneV,
        continued |-> \E i \in 1..Len(blk) : MatchesCONT_RX(blk[i])]

COLUMNS_UNIFIED ==
    {"InvoiceFileName", "Vendor", "InvoiceID", "InvoiceDate", "DueDate",
     "Description", "Quantity", "UnitPrice", "Amount", "Currency",
     "FedEx_Sender", "FedEx_CustRef", "PrimaryClientCode"}

\* What parse holds while it walks the blocks: c is what it took from the
\* whole text before the loop.
ParseContext(text, file_name, client_map) ==
    LET h == parse_invoice_header(text)
    IN [file_name |-> file_name, inv_no |-> h.inv_no, inv_date |-> h.inv_date,
        currency |-> IF is_usd(text) THEN <<"USD">> ELSE EmptyStr,
        client_map |-> client_map]

emit_row(c, sender, cust, tracking, total_amt) ==
    [InvoiceFileName |-> c.file_name,
     Vendor |-> <<"FedEx">>,
     InvoiceID |-> OrEmpty(c.inv_no),
     InvoiceDate |-> OrEmpty(c.inv_date),
     DueDate |-> EmptyStr,
     Description |-> <<"FedEx">>,
     Quantity |-> EmptyStr,
     UnitPrice |-> EmptyStr,
     Amount |-> IF total_amt # NoneV THEN total_amt[1] ELSE StrV(EmptyStr),
     Currency |-> c.currency,
     FedEx_Sender |-> OrEmpty(sender),
     FedEx_CustRef |-> soft_clean(OrEmpty(cust)),
     PrimaryClientCode |-> map_primary_from_custref(soft_clean(OrEmpty(cust)), c.client_map)]

\* FreshBlock, were a block with a sender, a reference, a tracking id or a
\* continuation marker emitted at once, its total resolved or not.
FreshBlockEmitsWithoutTotal(c, st, f) ==
    IF \/ f.total_amt # NoneV
       \/ Truthy(f.sender) \/ Truthy(f.cust_line) \/ f.continued \/ f.tracking # NoneV
    THEN [pending |-> st.pending,
          rows |-> Append(st.rows, emit_row(c, f.sender, f.cust_line, f.tracking, f.total_amt))]
    ELSE st

\* One pass of the loop of parse: st is [pending, rows], f the block's fields.
FreshBlock(c, st, f) ==
    IF f.total_amt # NoneV
    THEN [pending |-> st.pending,
          rows |-> Append(st.rows, emit_row(c, f.sender, f.cust_line, f.tracking, f.total_amt))]
    ELSE IF Truthy(f.sender) \/ Truthy(f.cust_line) \/ f.continued \/ f.tracking # NoneV
         THEN [pending |-> Some([tracking |-> f.tracking, cust |-> f.cust_line,
                                 sender |-> f.sender]),
               rows |-> st.rows]
         ELSE st

\* ParseBlock, were the row of a merge built from the current block alone.
ParseBlockNoCarry(c, st, f) ==
    IF st.pending # NoneV
    THEN LET pd == st.pending[1]
             same == f.tracking # NoneV /\ pd.tracking # NoneV /\ f.tracking = pd.tracking
         IN IF f.total_amt # NoneV /\ (same \/ f.continued \/ f.tracking = NoneV)
            THEN [pending |-> NoneV,
                  rows |-> Append(st.rows,
                                  emit_row(c, f.sender, f.cust_line, f.tracking, f.total_amt))]
            ELSE IF same
            THEN [pending |-> Some([tracking |-> pd.tracking,
                                    cust |-> IF Truthy(pd.cust) THEN pd.cust ELSE f.cust_line,
                                    sender |-> IF Truthy(pd.sender) THEN pd.sender ELSE f.sender]),
                  rows |-> st.rows]
            ELSE FreshBlock(c, [pending |-> NoneV, rows |-> st.rows], f)
    ELSE FreshBlock(c, st, f)

\* ParseBlock, were "pending = None" (line 380) missing: a pending shipment
\* would outlive a block of another shipment.
ParseBlockKeepsPending(c, st, f) ==
    IF st.pending # NoneV
    THEN LET pd == st.pending[1]
             same == f.tracking # NoneV /\ pd.tracking # NoneV /\ f.tracking = pd.tracking
         IN IF f.total_amt # NoneV /\ (same \/ f.continued \/ f.tracking = NoneV)
            THEN [pending |-> NoneV,
                  rows |-> Append(st.rows,
                                  emit_row(c, PyOr(pd.sender, f.sender),
                                           PyOr(pd.cust, f.cust_line),
                                           PyOr(pd.tracking, f.tracking), f.total_amt))]
            ELSE IF same
            THEN [pending |-> Some([tracking |-> pd.tracking,
                                    cust |-> IF Truthy(pd.cust) THEN pd.cust ELSE f.cust_line,
                                    sender |-> IF Truthy(pd.sender) THEN pd.sender ELSE f.sender]),
                  rows |-> st.rows]
            ELSE FreshBlock(c, st, f)
    ELSE FreshBlock(c, st, f)

\* ParseBlock, were a block with a total merged with whatever is pending.
ParseBlockMergesAny(c, st, f) ==
    IF st.pending # NoneV
    THEN LET pd == st.pending[1]
             same == f.tracking # NoneV /\ pd.tracking # NoneV /\ f.tracking = pd.tracking
         IN IF f.total_amt # NoneV /\ TRUE
            THEN [pending |-> NoneV,
                  rows |-> Append(st.rows,
                                  emit_row(c, PyOr(pd.sender, f.sender),
                                           PyOr(pd.cust, f.cust_line),
                                           PyOr(pd.tracking, f.tracking), f.total_amt))]
            ELSE IF same
            THEN [pending |-> Some([tracking |-> pd.tracking,
                                    cust |-> IF Truthy(pd.cust) THEN pd.cust ELSE f.cust_line,
                                    sender |-> IF Truthy(pd.sender) THEN pd.sender ELSE f.sender]),
                  rows |-> st.rows]
            ELSE FreshBlock(c, [pending |-> NoneV, rows |-> st.rows], f)
    ELSE FreshBlock(c, st, f)

\* ParseBlock, were a block without a tracking id not taken to continue the
\* pending shipment.
ParseBlockNeedsTracking(c, st, f) ==
    IF st.pending # NoneV
    THEN LET pd == st.pending[1]
             same == f.tracking # NoneV /\ pd.tracking # NoneV /\ f.tracking = pd.tracking
         IN IF f.total_amt # NoneV /\ (same \/ f.continued)
            THEN [pending |-> NoneV,
                  rows |-> Append(st.rows,
                                  emit_row(c, PyOr(pd.sender, f.sender),
                                           PyOr(pd.cust, f.cust_line),
                                           PyOr(pd.tracking, f.tracking), f.total_amt))]
            ELSE IF same
            THEN [pending |-> Some([tracking |-> pd.tracking,
                                    cust |-> IF Truthy(pd.cust) THEN pd.cust ELSE f.cust_line,
                                    sender |-> IF Truthy(pd.sender) THEN pd.sender ELSE f.sender]),
                  rows |-> st.rows]
            ELSE FreshBlock(c, [pending |-> NoneV, rows |-> st.rows], f)
    ELSE FreshBlock(c, st, f)

\* ParseBlock, were the reference and sender of the pending shipment replaced
\* by those of a block with the same tracking id.
ParseBlockOverwrites(c, st, f) ==
    IF st.pending # NoneV
    THEN LET pd == st.pending[1]
             same == f.tracking # NoneV /\ pd.tracking # NoneV /\ f.tracking = pd.tracking
         IN IF f.total_amt # NoneV /\ (same \/ f.continued \/ f.tracking = NoneV)
            THEN [pending |-> NoneV,
                  rows |-> Append(st.rows,
                                  emit_row(c, PyOr(pd.sender, f.sender),
                                           PyOr(pd.cust, f.cust_line),
                                           PyOr(pd.tracking, f.tracking), f.total_amt))]
            ELSE IF same
            THEN [pending |-> Some([tracking |-> pd.tracking,
                                    cust |-> f.cust_line,
                                    sender |-> f.sender]),
                  rows |-> st.rows]
            ELSE FreshBlock(c, [pending |-> NoneV, rows |-> st.rows], f)
    ELSE FreshBlock(c, st, f)

\* ParseBlock, were a row equal to one emitted before left out.
ParseBlockDedups(c, st, f) ==
    LET Dedup(st1) ==
            IF Len(st1.rows) > Len(st.rows)
               /\ \E n \in 1..Len(st.rows) : st.rows[n] = st1.rows[Len(st1.rows)]
            THEN [st1 EXCEPT !.rows = st.rows]
            ELSE st1
    IN IF st.pending # NoneV
       THEN LET pd == st.pending[1]
                same == f.tracking # NoneV /\ pd.tracking # NoneV /\ f.tracking = pd.tracking
            IN IF f.total_amt # NoneV /\ (same \/ f.continued \/ f.tracking = NoneV)
               THEN Dedup([pending |-> NoneV,
                           rows |-> Append(st.rows,
                                           emit_row(c, PyOr(pd.sender, f.sender),
                                                    PyOr(pd.cust, f.cust_line),
                                                    PyOr(pd.tracking, f.tracking),
                                                    f.total_amt))])
               ELSE IF same
               THEN [pending |-> Some([tracking |-> pd.tracking,
                                       cust |-> IF Truthy(pd.cust) THEN pd.cust
                                                ELSE f.cust_line,
                                       sender |-> IF Truthy(pd.sender) THEN pd.sender
                                                  ELSE f.sender]),
                     rows |-> st.rows]
               ELSE Dedup(FreshBlock(c, [pending |-> NoneV, rows |-> st.rows], f))
       ELSE Dedup(FreshBlock(c, st, f))

\* ParseBlock, were the pending shipment kept after its row is emitted.
ParseBlockEmitKeepsPending(c, st, f) ==
    IF st.pending # NoneV
    THEN LET pd == st.pending[1]
             same == f.tracking # NoneV /\ pd.tracking # NoneV /\ f.tracking = pd.tracking
         IN IF f.total_amt # NoneV /\ (same \/ f.continued \/ f.tracking = NoneV)
            THEN [pending |-> st.pending,
                  rows |-> Append(st.rows,
                                  emit_row(c, PyOr(pd.sender, f.sender),
                                           PyOr(pd.cust, f.cust_line),
                                           PyOr(pd.tracking, f.tracking), f.total_amt))]
            ELSE IF same
            THEN [pending |-> Some([tracking |-> pd.tracking,
                                    cust |-> IF Truthy(pd.cust) THEN pd.cust ELSE f.cust_line,
                                    sender |-> IF Truthy(pd.sender) THEN pd.sender ELSE f.sender]),
                  rows |-> st.rows]
            ELSE FreshBlock(c, [pending |-> NoneV, rows |-> st.rows], f)
    ELSE FreshBlock(c, st, f)

\* The pending shipment and the block at hand (lines 364-387).
ParseBlock(c, st, f) ==
    IF st.pending # NoneV
    THEN LET pd == st.pending[1]
             same == f.tracking # NoneV /\ pd.tracking # NoneV /\ f.tracking = pd.tracking
         IN IF f.total_amt # NoneV /\ (same \/ f.continued \/ f.tracking = NoneV)
            THEN [pending |-> NoneV,
                  rows |-> Append(st.rows,
                                  emit_row(c, PyOr(pd.sender, f.sender),
                                           PyOr(pd.cust, f.cust_line),
                                           PyOr(pd.tracking, f.tracking), f.total_amt))]
            ELSE IF same
            THEN [pending |-> Some([tracking |-> pd.tracking,
                                    cust |-> IF Truthy(pd.cust) THEN pd.cust ELSE f.cust_line,
                                    sender |-> IF Truthy(pd.sender) THEN pd.sender ELSE f.sender]),
                  rows |-> st.rows]
            ELSE FreshBlock(c, [pending |-> NoneV, rows |-> st.rows], f)
    ELSE FreshBlock(c, st, f)

\* The "FedEx Other Charges" row, were the columns with no value left out.
OtherChargesRowShort(c, text, oc) ==
    [InvoiceFileName |-> c.file_name,
     Vendor |-> <<"FedEx">>,
     InvoiceID |-> OrEmpty(c.inv_no),
     InvoiceDate |-> OrEmpty(c.inv_date),
     Description |-> <<"FedEx Other Charges">>,
     Amount |-> oc,
     Currency |-> IF c.currency = <<"USD">> \/ (\E i \in 1..Len(text) : HasUSD(text[i]))
                  THEN <<"USD">> ELSE EmptyStr]

\* The "FedEx Other Charges" row.
OtherChargesRow(c, text, oc) ==
    [InvoiceFileName |-> c.file_name,
     Vendor |-> <<"FedEx">>,
     InvoiceID |-> OrEmpty(c.inv_no),
     InvoiceDate |-> OrEmpty(c.inv_date),
     DueDate |-> EmptyStr,
     Description |-> <<"FedEx Other Charges">>,
     Quantity |-> EmptyStr,
     UnitPrice |-> EmptyStr,
     Amount |-> oc,
     Currency |-> IF c.currency = <<"USD">> \/ (\E i \in 1..Len(text) : HasUSD(text[i]))
                  THEN <<"USD">> ELSE EmptyStr,
     FedEx_Sender |-> EmptyStr,
     FedEx_CustRef |-> EmptyStr,
     PrimaryClientCode |-> EmptyStr]

AddOtherCharges(c, text, rows) ==
    LET oc == parse_other_charges(text)
    IN IF oc # NoneV THEN Append(rows, OtherChargesRow(c, text, oc[1])) ELSE rows

\* ReturnRows, were a shipment still pending after the last block given a
\* row without an amount.
ReturnRowsFlushesPending(c, text, st) ==
    AddOtherCharges(c, text,
        IF st.pending = NoneV THEN st.rows
        ELSE Append(st.rows, emit_row(c, st.pending[1].sender, st.pending[1].cust,
                                      st.pending[1].tracking, NoneV)))

\* What parse returns after the loop over the blocks: the rows emitted and
\* the row of the other charges; pending is not read again.
ReturnRows(c, text, st) == AddOtherCharges(c, text, st.rows)

RECURSIVE WalkBlocks(_, _, _, _)
WalkBlocks(c, st, blocks, i) ==
    IF i > Len(blocks) THEN st
    ELSE WalkBlocks(c, ParseBlock(c, st, BlockFields(blocks[i])), blocks, i + 1)

\* FedExParser(client_map).parse(pdf_text, file_name)
FedExParse(text, file_name, client_map) ==
    LET c == ParseContext(text, file_name, client_map)
        st == WalkBlocks(c, [pending |-> NoneV, rows |-> <<>>], iter_ship_blocks(text), 1)
    IN ReturnRows(c, text, st)

(***************************************************************************)
(* LightningParser.  Its lines:                                            *)
(*   "Lightning Messenger Express"     the brand line                      *)
(*   "Lightning header"    Invoice Number <a> <b>                          *)
(*   "Lightning header B"  Customer Number Invoice Number Invoice Date     *)
(*                         Invoice Amount 7 <a> <b>                        *)
(*   "Billing Reference 1"             Billing Reference 1 <a>             *)
(*   "Summary - Billing Reference 1"   Summary - Billing Reference 1 <a>   *)
(*   "Totals: Billing Reference 1"     Totals: Billing Reference 1 - <a>   *)
(*                                     Total: $<b>                         *)
(*   "Date"        <b> (a date, month/day/year)                            *)
(*   "Order ID"    Order ID <a> <b> Gelfand                                *)
(*   "Number"      <a> <b> Gelfand (a number of 5 digits or more)          *)
(*   "Order Total" Order Total: $<a>                                       *)
(* In the texts of the model the header is within the 5000 characters      *)
(* _extract_header reads, a "Number" line is within the 160 characters     *)
(* after the date and before any other long number, and an order id        *)
(* occurs in its block only in its own line.                               *)
(***************************************************************************)
\* \d{7,}
IsLongRef(a) == Len(a) >= 7 /\ \A i \in 1..Len(a) : IsDigit(a[i])

MatchesHDR_A(l) == l.k = "Lightning header"
MatchesHDR_B(l) == l.k = "Lightning header B"
MatchesREF_TOTAL_RX(l) == l.k = "Totals: Billing Reference 1" /\ IsLongRef(l.a)
MatchesREF_START_RX(l) ==
    l.k \in {"Billing Reference 1", "Summary - Billing Reference 1"} /\ IsLongRef(l.a)
\* \b\d{1,2}/\d{1,2}/\d{4}\b
\* The first date of the line.
DateOf(l) == IF l.b # <<>> /\ l.b[1] = "range" THEN <<l.b[2], l.b[3]>> ELSE l.b
MatchesDATE_RX(l) ==
    /\ l.k \in {"Date", "Lightning header", "Lightning header B", "Invoice Date",
                "Invoice Period", "Date due"}
    /\ l.b # <<>> /\ DateOf(l)[1] \in {"%m/%d/%Y", "99/99/9999"}
MatchesORDER_ID_FROM_LABEL(l) == l.k = "Order ID"
MatchesORDER_ID_FALLBACK(l) == l.k = "Number"

_extract_header(text) ==
    LET ma == First(text, 1, MatchesHDR_A)
        mb == First(text, 1, MatchesHDR_B)
    IN IF ma # 0 THEN [inv_no |-> text[ma].a, inv_date |-> try_parse_date(text[ma].b)]
       ELSE IF mb # 0 THEN [inv_no |-> text[mb].a, inv_date |-> try_parse_date(text[mb].b)]
       ELSE [inv_no |-> EmptyStr, inv_date |-> EmptyStr]

\* TotalOf, were the totals line of ref that comes first to win.
TotalOfFirstWins(text, ref) ==
    LET IsTotalOf(l) == MatchesREF_TOTAL_RX(l) /\ l.a = ref
        m == First(text, 1, IsTotalOf)
    IN IF m = 0 THEN NoneV
       ELSE LET f == amount_to_float(Some(text[m].b))
            IN IF f = NoneV \/ f[1] = Float(0) THEN Some(Float(0)) ELSE f

\* TotalOf, were a reference without a totals line given the total 0.0.
TotalOfDefaultZero(text, ref) ==
    LET IsTotalOf(l) == MatchesREF_TOTAL_RX(l) /\ l.a = ref
        m == Last(text, IsTotalOf)
    IN IF m = 0 THEN Some(Float(0))
       ELSE LET f == amount_to_float(Some(text[m].b))
            IN IF f = NoneV \/ f[1] = Float(0) THEN Some(Float(0)) ELSE f

\* _totals_by_reference(text).get(ref): the totals line of ref that comes last.
TotalOf(text, ref) ==
    LET IsTotalOf(l) == MatchesREF_TOTAL_RX(l) /\ l.a = ref
        m == Last(text, IsTotalOf)
    IN IF m = 0 THEN NoneV
       ELSE LET f == amount_to_float(Some(text[m].b))
            IN IF f = NoneV \/ f[1] = Float(0) THEN Some(Float(0)) ELSE f

\* _caller_near(order_id, block)
_caller_near(order_id, block) ==
    LET IsOrder(l) == l.k \in {"Order ID", "Number"} /\ l.a = order_id
        m == First(block, 1, IsOrder)
    IN IF order_id = EmptyStr \/ m = 0 THEN EmptyStr ELSE soft_clean(block[m].b)

\* The start of every reference block, in the order of the text.
RefStarts(text) == {i \in 1..Len(text) : MatchesREF_START_RX(text[i])}
RefEnd(text, i) ==
    LET later == {j \in RefStarts(text) : j > i}
    IN IF later = {} THEN Len(text) ELSE (CHOOSE j \in later : \A h \in later : j <= h) - 1

LightningRow(text, file_name, client_map, hdr, start) ==
    LET ref == text[start].a
        block == SubSeq(text, start, RefEnd(text, start))
        m_date == First(block, 1, MatchesDATE_RX)
        date_found == IF m_date # 0 THEN try_parse_date(DateOf(block[m_date])) ELSE EmptyStr
        m_oid == First(block, 1, MatchesORDER_ID_FROM_LABEL)
        m_fallback == IF m_date # 0 THEN First(block, m_date + 1, MatchesORDER_ID_FALLBACK)
                      ELSE 0
        order_id == IF m_oid # 0 THEN block[m_oid].a
                    ELSE IF m_fallback # 0 THEN block[m_fallback].a
                    ELSE EmptyStr
        caller == IF order_id # EmptyStr THEN _caller_near(order_id, block) ELSE EmptyStr
        amt == TotalOf(text, ref)
    IN [InvoiceFileName |-> file_name,
        Vendor |-> <<"Lightning Messenger Express">>,
        InvoiceID |-> hdr.inv_no,
        InvoiceDate |-> IF date_found # EmptyStr THEN date_found ELSE hdr.inv_date,
        DueDate |-> EmptyStr,
        Description |-> <<"Lightning Messenger">>,
        Quantity |-> EmptyStr,
        UnitPrice |-> EmptyStr,
        Amount |-> IF amt # NoneV THEN amt[1] ELSE StrV(EmptyStr),
        Currency |-> <<"USD">>,
        FedEx_Sender |-> caller,
        FedEx_CustRef |-> ref,
        PrimaryClientCode |-> map_primary_from_custref(soft_clean(ref), client_map)]

RECURSIVE LightningRows(_, _, _, _, _)
LightningRows(text, file_name, client_map, hdr, i) ==
    IF i > Len(text) THEN <<>>
    ELSE IF MatchesREF_START_RX(text[i])
         THEN <<LightningRow(text, file_name, client_map, hdr, i)>>
                  \o LightningRows(text, file_name, client_map, hdr, i + 1)
         ELSE LightningRows(text, file_name, client_map, hdr, i + 1)

\* LightningParser(client_map).parse(pdf_text, file_name)
LightningParse(text, file_name, client_map) ==
    LightningRows(text, file_name, client_map, _extract_header(text), 1)

(***************************************************************************)
(* generic_invoice_parser.  Its lines:                                     *)
(*   "Invoice Number:"   Invoice Number: <a>                               *)
(*   "Invoice #"         Invoice # <a>                                     *)
(*   "Invoice Date"      Invoice Date: <b>                                 *)
(*   "Date of issue"     Date of issue: <b>                                *)
(*   "Date due"          Date due: <b>                                     *)
(*   "Invoice Period"    Invoice Period: <b>                               *)
(*   "Total Amount"      Total Amount: $<a>                                *)
(*   "Amount Due"        Amount Due: $<a>                                  *)
(*   "Total:"            Total: $<a>                                       *)
(*   "Vendor name"       <a>, a name with LLC, Inc. and the like           *)
(*   "Remit Payment To"  Remit Payment To                                  *)
(*   "EUR"               EUR                                               *)
(*   "text"              <a>, any other text                               *)
(* A date is <<format, date>>, or <<"range", f1, d1, f2, d2>> for          *)
(* "d1 - d2".                                                              *)
(***************************************************************************)
NormalizeFormats == {"%m/%d/%Y", "%Y-%m-%d", "%B %d, %Y", "%b %d, %Y"}

normalize_date(d) ==
    IF d = <<>> THEN d
    ELSE IF d[1] \in NormalizeFormats THEN <<IsoFormat, d[2]>>
    ELSE IF d[1] = "range"
         THEN IF d[4] \in NormalizeFormats /\ d[4] # IsoFormat THEN <<IsoFormat, d[5]>>
              ELSE IF d[2] \in NormalizeFormats /\ d[2] # IsoFormat THEN <<IsoFormat, d[3]>>
              ELSE d
    ELSE d

MonthNameFormats == {"%B %d, %Y", "%b %d, %Y", "Foo 5, 2025"}
NumericFormats == {"%m/%d/%Y", "%m/%d/%y", "99/99/9999"}

\* What pattern j of the list of a field captures in line l (<<>>: no match).
GenericCapture(field, j, l) ==
    CASE field = "InvoiceID" /\ j = 1 ->
           IF l.k \in {"FedEx header", "Lightning header", "Invoice Number:"}
           THEN Some(l.a)
           ELSE IF l.k = "Lightning header B" THEN Some(<<"Invoice">>)
           ELSE NoneV
      [] field = "InvoiceID" /\ j = 2 ->
           IF l.k = "Invoice #" THEN Some(l.a) ELSE NoneV
      [] field = "InvoiceDate" /\ j = 1 ->
           IF l.k = "Invoice Date" /\ l.b[1] \in NumericFormats THEN Some(l.b) ELSE NoneV
      [] field = "InvoiceDate" /\ j = 2 ->
           IF l.k = "Date of issue" /\ l.b[1] \in MonthNameFormats THEN Some(l.b) ELSE NoneV
      [] field = "InvoiceDate" /\ j = 3 ->
           IF l.k = "Date due" /\ l.b[1] \in MonthNameFormats THEN Some(l.b) ELSE NoneV
      [] field = "InvoiceDate" /\ j = 4 ->
           IF l.k = "Invoice Period" THEN Some(l.b) ELSE NoneV
      [] field = "Amount" /\ j = 1 ->
           IF l.k = "Total Amount" THEN Some(l.a) ELSE NoneV
      [] field = "Amount" /\ j \in {2, 4} ->
           IF l.k = "Amount Due" THEN Some(l.a) ELSE NoneV
      [] field = "Amount" /\ j = 3 ->
           IF l.k \in {"Total:", "Order Total"} THEN Some(l.a)
           ELSE IF l.k = "Totals: Billing Reference 1" THEN Some(l.b)
           ELSE NoneV
      [] OTHER -> NoneV

PatternCount(field) == IF field = "InvoiceID" THEN 2 ELSE 4

\* The first pattern of the field's list that matches, at its first match.
RECURSIVE GenericField(_, _, _)
GenericField(text, field, j) ==
    IF j > PatternCount(field) THEN NoneV
    ELSE LET Hit(l) == GenericCapture(field, j, l) # NoneV
             m == First(text, 1, Hit)
         IN IF m # 0 THEN GenericCapture(field, j, text[m])
            ELSE GenericField(text, field, j + 1)

\* The dedicated due-date pattern: a month-name date or a numeric date.
MatchesDateDue(l) ==
    l.k = "Date due" /\ l.b # <<>> /\ l.b[1] \in MonthNameFormats \cup NumericFormats
LineText(l) == <<l.k>> \o l.a \o l.b
HasCompanyWord(l) == l.k \in {"Vendor name", "Lightning Messenger Express"}
IsVendorLabel(l) == l.k = "Remit Payment To"
IsHeaderLike(l) ==
    l.k \in {"Ship Date:", "FedEx header", "Lightning header", "Lightning header B",
             "Invoice Number:", "Invoice #", "Invoice Date", "Date of issue", "Date due",
             "Invoice Period", "Total Amount", "Amount Due"}

\* The candidate line i adds after a vendor label: the first of the next
\* three lines that is not header-like.
AfterLabel(text, i) ==
    LET nxt == {j \in (i + 1)..(i + 3) : j <= Len(text) /\ ~IsHeaderLike(text[j])}
    IN IF nxt = {} THEN 0 ELSE CHOOSE j \in nxt : \A h \in nxt : j <= h

GenericVendor(text) ==
    LET gives == {i \in 1..Len(text) :
                     \/ HasCompanyWord(text[i])
                     \/ IsVendorLabel(text[i]) /\ AfterLabel(text, i) # 0}
    IN IF gives = {} THEN EmptyStr
       ELSE LET i == CHOOSE i \in gives : \A h \in gives : i <= h
            IN IF HasCompanyWord(text[i]) THEN LineText(text[i])
               ELSE LineText(text[AfterLabel(text, i)])

CurrencyOf(l) ==
    IF l.k \in {"Total Charge", "Other Charges", "USD"} THEN <<"USD">>
    ELSE IF l.k = "EUR" THEN <<"EUR">>
    ELSE EmptyStr

GenericCurrency(text) ==
    LET HasCode(l) == CurrencyOf(l) # EmptyStr
        m == First(text, 1, HasCode)
    IN IF m = 0 THEN EmptyStr ELSE CurrencyOf(text[m])

GenericResult(text, file_name) ==
    LET id == GenericField(text, "InvoiceID", 1)
        dt == GenericField(text, "InvoiceDate", 1)
        am == GenericField(text, "Amount", 1)
        due == First(text, 1, MatchesDateDue)
    IN [InvoiceFileName |-> file_name,
        Vendor |-> GenericVendor(text),
        InvoiceID |-> IF id # NoneV THEN id[1] ELSE EmptyStr,
        InvoiceDate |-> IF dt # NoneV THEN normalize_date(dt[1]) ELSE EmptyStr,
        DueDate |-> IF due # 0 THEN text[due].b ELSE EmptyStr,
        Description |-> <<"Generic Invoice">>,
        Quantity |-> EmptyStr,
        UnitPrice |-> EmptyStr,
        Amount |-> StrV(IF am # NoneV THEN am[1] ELSE EmptyStr),
        Currency |-> GenericCurrency(text),
        FedEx_Sender |-> EmptyStr,
        FedEx_CustRef |-> EmptyStr,
        PrimaryClientCode |-> EmptyStr]

\* generic_invoice_parser, were a text that gives no field to give no row.
GenericNoRowWhenBlank(text, file_name) ==
    IF GenericResult(text, file_name) = GenericResult(<<>>, file_name) THEN <<>>
    ELSE <<GenericResult(text, file_name)>>

generic_invoice_parser(text, file_name) == <<GenericResult(text, file_name)>>

(***************************************************************************)
(* Vendor detection.  Phrases(l) is the set of the brand and anchor        *)
(* phrases that the lower-cased line contains.                             *)
(***************************************************************************)
Phrases(l) ==
    CASE l.k = "Ship Date:" -> {"ship date:"}
      [] l.k \in {"Tracking ID", "continued"} -> {"tracking id"}
      [] l.k = "FedEx" -> {"fedex"}
      [] l.k \in {"FedEx header", "Lightning header", "Invoice Number:"} -> {"invoice number"}
      [] l.k = "Lightning header B" -> {"customer number", "invoice number"}
      [] l.k = "Billing Reference 1" -> {"billing reference 1"}
      [] l.k = "Summary - Billing Reference 1" ->
           {"summary - billing reference 1", "billing reference 1"}
      [] l.k = "Totals: Billing Reference 1" ->
           {"totals: billing reference 1", "billing reference 1"}
      [] l.k = "Order Total" -> {"order total:"}
      [] l.k = "Invoice Period" -> {"invoice period"}
      [] l.k = "Lightning Messenger Express" -> {"lightning messenger express"}
      [] OTHER -> {}

TextPhrases(text) == UNION {Phrases(text[i]) : i \in 1..Len(text)}

FedExAnchors ==
    {"tracking id", "fedex express shipment", "fedex express ship", "ship date:",
     "transportation charge", "total transportation charges", "fedex other charges",
     "earned discount", "fuel surcharge", "invoice summary", "total this invoice"}

LightningBrands ==
    {"lightning messenger express", "www.lightningmessengerexpress.com",
     "payment due upon receipt"}

LightningAnchors ==
    {"summary - billing reference 1", "billing reference 1", "order total:",
     "totals: billing reference 1", "customer number", "invoice number",
     "invoice period"}

looks_like_fedex(text) ==
    /\ text # <<>>
    /\ "fedex" \in TextPhrases(text)
    /\ TextPhrases(text) \cap FedExAnchors # {}

\* looks_like_lightning, were two structural anchors not enough.
LightningNeedsThreeAnchors(text) ==
    /\ text # <<>>
    /\ \/ TextPhrases(text) \cap LightningBrands # {}
       \/ Cardinality(TextPhrases(text) \cap LightningAnchors) >= 3

looks_like_lightning(text) ==
    /\ text # <<>>
    /\ \/ TextPhrases(text) \cap LightningBrands # {}
       \/ Cardinality(TextPhrases(text) \cap LightningAnchors) >= 2

(***************************************************************************)
(* process_file_auto.  A file is [name, mb, text]: its size in megabytes   *)
(* and the text read_pdf_text returns for it.                              *)
(***************************************************************************)
MAX_FILE_MB == 50

\* Branch, were a tie of the two parsers to go to FedExParser.
BranchTieToFedEx(file, client_map) ==
    LET fedex_rows == FedExParse(file.text, file.name, client_map)
        lightning_rows == LightningParse(file.text, file.name, client_map)
    IN IF file.mb > MAX_FILE_MB THEN "too large"
       ELSE IF looks_like_fedex(file.text) THEN "fedex"
       ELSE IF looks_like_lightning(file.text) THEN "lightning"
       ELSE IF Len(lightning_rows) > Len(fedex_rows) THEN "lightning"
       ELSE IF Len(fedex_rows) > 0 THEN "fedex"
       ELSE "generic"

\* The branch process_file_auto takes.
Branch(file, client_map) ==
    LET fedex_rows == FedExParse(file.text, file.name, client_map)
        lightning_rows == LightningParse(file.text, file.name, client_map)
    IN IF file.mb > MAX_FILE_MB THEN "too large"
       ELSE IF looks_like_fedex(file.text) THEN "fedex"
       ELSE IF looks_like_lightning(file.text) THEN "lightning"
       ELSE IF Len(lightning_rows) >= Len(fedex_rows) /\ Len(lightning_rows) > 0
            THEN "lightning"
       ELSE IF Len(fedex_rows) > 0 THEN "fedex"
       ELSE "generic"

\* process_file_auto, were a text that neither predicate recognises given
\* the rows of both parsers.
ProcessFileAutoMixes(file, client_map) ==
    LET b == Branch(file, client_map)
        fedex_rows == FedExParse(file.text, file.name, client_map)
        lightning_rows == LightningParse(file.text, file.name, client_map)
    IN CASE b = "too large" -> <<>>
         [] b = "fedex" /\ looks_like_fedex(file.text) -> fedex_rows
         [] b = "lightning" /\ looks_like_lightning(file.text) -> lightning_rows
         [] b \in {"fedex", "lightning"} -> fedex_rows \o lightning_rows
         [] OTHER -> generic_invoice_parser(file.text, file.name)

\* process_file_auto, were generic_invoice_parser tried when the parser of the
\* recognised carrier finds no rows.
ProcessFileAutoFallsBack(file, client_map) ==
    LET b == Branch(file, client_map)
        found == CASE b = "fedex" -> FedExParse(file.text, file.name, client_map)
                   [] b = "lightning" -> LightningParse(file.text, file.name, client_map)
                   [] OTHER -> <<>>
    IN IF b = "too large" THEN <<>>
       ELSE IF found # <<>> THEN found
       ELSE generic_invoice_parser(file.text, file.name)

process_file_auto(file, client_map) ==
    LET b == Branch(file, client_map)
    IN CASE b = "too large" -> <<>>
         [] b = "fedex" -> FedExParse(file.text, file.name, client_map)
         [] b = "lightning" -> LightningParse(file.text, file.name, client_map)
         [] OTHER -> generic_invoice_parser(file.text, file.name)

(***************************************************************************)
(* The state.                                                              *)
(*   norm        the texts normalize_text was given and returned, in turn  *)
(*   cust        the reference handed to map_primary_from_custref          *)
(*   primary     what it returned (None before the call)                   *)
(*   client_map  the client code map                                       *)
(*   file        the file at hand: [name, mb, text]                        *)
(*   pc          where the call at hand stands                             *)
(*   i           the number of blocks FedExParser.parse has walked         *)
(*   st          its [pending, rows]                                       *)
(*   prev        st before the block walked last                           *)
(*   rows        the rows the call returned; in run_analyze, self.rows     *)
(*   verdict     what looks_like_fedex or looks_like_lightning returned    *)
(*   files       the files run_analyze walks (i of them are done)          *)
(*   errors      its list of error messages                                *)
(*   counts      its counters                                              *)
(***************************************************************************)
VARIABLES norm, cust, primary, client_map, file, pc, i, st, prev, rows,
          verdict, files, errors, counts

vars == <<norm, cust, primary, client_map, file, pc, i, st, prev, rows,
          verdict, files, errors, counts>>

NoFile == [name |-> EmptyStr, mb |-> 0, text |-> <<>>]
NoState == [pending |-> NoneV, rows |-> <<>>]
NoCounts == [total_rows |-> 0, fedex_count |-> 0, lightning_count |-> 0, generic_count |-> 0]

\* All sequences over S of length at most n.
SeqsUpTo(S, n) == UNION {[1..m -> S] : m \in 0..n}

(***************************************************************************)
(* normalize_text applied, and applied again to what it returned.          *)
(***************************************************************************)
NormChunks ==
    {<<"total", ":">>, <<"Total", "s", ":">>, <<"Total">>, <<"billing", "reference", "1">>,
     <<"Billing", " ", "Reference", " ", "1">>, <<"en">>, <<"-">>, <<" ">>,
     <<"\n">>, <<"nbsp", "\t">>, <<"transportation", "charge", "s">>,
     <<"Charge">>, <<"summary">>, <<"order", " ", "total">>, <<"invoice", "number">>,
     <<"Customer", " ", "Number">>, <<"invoice", "\n", "period">>, <<"lig">>, <<"x">>}

NormInputs == {Concat(cs) : cs \in SeqsUpTo(NormChunks, MaxChunks)}

InitNorm ==
    /\ verdict = FALSE /\ files = <<>> /\ errors = <<>> /\ counts = NoCounts
    /\ norm \in {<<t>> : t \in NormInputs}
    /\ cust = EmptyStr /\ primary = NoneV /\ client_map = <<>>
    /\ file = NoFile /\ pc = "norm" /\ i = 0 /\ st = NoState /\ prev = NoState
    /\ rows = <<>>

Normalize ==
    /\ pc = "norm"
    /\ Len(norm) <= MaxPasses
    /\ norm' = Append(norm, normalize_text(norm[Len(norm)]))
    /\ UNCHANGED <<cust, primary, client_map, file, pc, i, st, prev, rows, verdict, files, errors, counts>>

NextNorm == Normalize

SpecNorm == InitNorm /\ [][NextNorm]_vars

(***************************************************************************)
(* map_primary_from_custref applied to a reference and a map.  The keys    *)
(* and codes of a map are what load_client_map_csv stores: soft-cleaned    *)
(* and not empty.  The item at place n holds the code <<"C", n>>.          *)
(***************************************************************************)
RefChars == {"A", "a", "1", " "}
MapKeySet == {<<"A">>, <<"a">>, <<"1">>, <<"A", "1">>, <<"a", "1">>}
Code(n) == <<"C", ToString(n)>>

Refs == SeqsUpTo(RefChars, MaxRefLen)
Maps ==
    {[n \in 1..Len(ks) |-> [k |-> ks[n], v |-> Code(n)]] :
        ks \in {q \in SeqsUpTo(MapKeySet, MaxMapLen) :
                   \A x, y \in 1..Len(q) : x # y => q[x] # q[y]}}

InitMap ==
    /\ verdict = FALSE /\ files = <<>> /\ errors = <<>> /\ counts = NoCounts
    /\ cust \in Refs /\ client_map \in Maps /\ primary = NoneV
    /\ norm = <<>> /\ file = NoFile /\ pc = "map" /\ i = 0 /\ st = NoState
    /\ prev = NoState /\ rows = <<>>

Lookup ==
    /\ pc = "map"
    /\ primary = NoneV
    /\ primary' = Some(map_primary_from_custref(cust, client_map))
    /\ UNCHANGED <<norm, cust, client_map, file, pc, i, st, prev, rows, verdict, files, errors, counts>>

NextMap == Lookup

SpecMap == InitMap /\ [][NextMap]_vars

(***************************************************************************)
(* FedExParser.parse, block by block.  A text is a preamble and at most    *)
(* MaxBlocks blocks; a block is its "Ship Date:" line and the lines of     *)
(* its fields.  A "Cust. Ref." line with a blank value ends its block,     *)
(* as CUST_REF_RX would take the line after it otherwise.                  *)
(***************************************************************************)
ShipDateLine == Line("Ship Date:", <<>>, <<>>)
TrackingLine(id) == Line("Tracking ID", <<id>>, <<>>)
CustRefLine(ref) == Line("Cust. Ref.", ref, <<>>)
SenderLine(name) == Line("Sender", name, <<>>)
TotalLine(amt) == Line("Total Charge", amt, <<>>)
ContinuedLine(id) == Line("continued", <<id>>, <<>>)
OtherChargesLine(amt) == Line("Other Charges", amt, <<>>)
LateFeeLine(amt) == Line("Late Fee", amt, <<>>)
FedExHeaderLine == Line("FedEx header", <<"123">>, <<"%b %d, %Y", "2025-01-05">>)

Amt4500 == <<"4", "5", ".", "0", "0">>
Amt104550 == <<"1", ",", "0", "4", "5", ".", "5", "0">>
Amt500 == <<"5", ".", "0", "0">>
RefA1 == <<"A", "1">>

FedExBlocks ==
    {<<ShipDateLine>> \o trk \o fld \o tot \o cont :
        trk \in {<<>>, <<TrackingLine("111111111")>>, <<TrackingLine("222222222")>>},
        fld \in {<<>>, <<SenderLine(<<"ACME", "CO">>), CustRefLine(RefA1)>>},
        tot \in {<<>>, <<TotalLine(Amt4500)>>},
        cont \in {<<>>, <<ContinuedLine("7")>>}}
    \cup
    {<<ShipDateLine, TrackingLine("111111111"), CustRefLine(<<"a", " ", " ", "1">>)>>,
     <<ShipDateLine, SenderLine(<<"Gelfand", "Rennert", "and", "Feldman">>)>>,
     <<ShipDateLine, CustRefLine(<<" ">>)>>,
     <<ShipDateLine, TotalLine(Amt4500), TotalLine(Amt104550)>>}

FedExPreambles ==
    {<<>>, <<Line("FedEx", <<>>, <<>>), FedExHeaderLine, OtherChargesLine(Amt500)>>}

FedExTexts ==
    {pre \o Concat(bs) : pre \in FedExPreambles, bs \in SeqsUpTo(FedExBlocks, MaxBlocks)}

FileName == <<"f1.pdf">>
FedExMap == <<[k |-> RefA1, v |-> Code(1)]>>

InitFedEx ==
    /\ verdict = FALSE /\ files = <<>> /\ errors = <<>> /\ counts = NoCounts
    /\ file \in {[name |-> FileName, mb |-> 1, text |-> t] : t \in FedExTexts}
    /\ client_map = FedExMap
    /\ pc = "begin" /\ i = 0 /\ st = NoState /\ prev = NoState /\ rows = <<>>
    /\ norm = <<>> /\ cust = EmptyStr /\ primary = NoneV

Context == ParseContext(file.text, file.name, client_map)
Blocks == iter_ship_blocks(file.text)

\* The header, the currency, and the empty rows and pending.
ParseBegin ==
    /\ pc = "begin"
    /\ pc' = "blocks"
    /\ i' = 0 /\ st' = NoState /\ prev' = NoState
    /\ UNCHANGED <<norm, cust, primary, client_map, file, rows, verdict, files, errors, counts>>

\* One pass of the loop over the blocks.
ParseNext ==
    /\ pc = "blocks"
    /\ i < Len(Blocks)
    /\ prev' = st
    /\ st' = ParseBlock(Context, st, BlockFields(Blocks[i + 1]))
    /\ i' = i + 1
    /\ UNCHANGED <<norm, cust, primary, client_map, file, pc, rows, verdict, files, errors, counts>>

\* After the last block: the other charges, and the return.
ParseEnd ==
    /\ pc = "blocks"
    /\ i = Len(Blocks)
    /\ rows' = ReturnRows(Context, file.text, st)
    /\ pc' = "done"
    /\ UNCHANGED <<norm, cust, primary, client_map, file, i, st, prev, verdict, files, errors, counts>>

NextFedEx == ParseBegin \/ ParseNext \/ ParseEnd

SpecFedEx == InitFedEx /\ [][NextFedEx]_vars

(***************************************************************************)
(* The parsers and process_file_auto, each applied to a file.  The texts   *)
(* are all the sequences of at most MaxLines lines of a vocabulary that    *)
(* has lines of both carriers and of other vendors.  No line of it has a   *)
(* date of the form DATE_RX takes, so that ORDER_ID_FALLBACK, which        *)
(* searches the characters after such a date, is never applied.            *)
(***************************************************************************)
Ref1111111 == <<"1", "1", "1", "1", "1", "1", "1">>
Amt3500 == <<"3", "5", ".", "0", "0">>
Amt123400 == <<"1", ",", "2", "3", "4", ".", "0", "0">>

Vocabulary ==
    {ShipDateLine, TrackingLine("111111111"), SenderLine(<<"ACME", "CO">>),
     TotalLine(Amt4500), OtherChargesLine(Amt500), Line("FedEx", <<>>, <<>>),
     Line("Lightning Messenger Express", <<>>, <<>>),
     Line("Billing Reference 1", Ref1111111, <<>>),
     Line("Totals: Billing Reference 1", Ref1111111, Amt3500),
     Line("Vendor name", <<"Acme", "LLC">>, <<>>),
     Line("Order ID", <<"58939">>, <<"M", "a", "r", "i", "n", "e">>),
     Line("Invoice Number:", <<"A-1">>, <<>>),
     Line("Total:", Amt123400, <<>>),
     Line("text", <<"hello">>, <<>>)}

Texts == SeqsUpTo(Vocabulary, MaxLines)

Files ==
    {[name |-> FileName, mb |-> MAX_FILE_MB, text |-> t] : t \in Texts}
    \cup {[name |-> FileName, mb |-> MAX_FILE_MB + 1, text |-> t] : t \in SeqsUpTo(Vocabulary, 1)}

Init ==
    /\ verdict = FALSE /\ files = <<>> /\ errors = <<>> /\ counts = NoCounts
    /\ file \in Files
    /\ client_map = <<[k |-> Ref1111111, v |-> Code(1)]>>
    /\ pc = "ready" /\ rows = <<>>
    /\ i = 0 /\ st = NoState /\ prev = NoState
    /\ norm = <<>> /\ cust = EmptyStr /\ primary = NoneV

Call(name, result) ==
    /\ pc = "ready"
    /\ pc' = name
    /\ rows' = result
    /\ UNCHANGED <<norm, cust, primary, client_map, file, i, st, prev, verdict, files, errors, counts>>

CallFedExParse == Call("FedExParser.parse", FedExParse(file.text, file.name, client_map))
CallLightningParse ==
    Call("LightningParser.parse", LightningParse(file.text, file.name, client_map))
CallGenericParser ==
    Call("generic_invoice_parser", generic_invoice_parser(file.text, file.name))
CallProcessFileAuto == Call("process_file_auto", process_file_auto(file, client_map))

Detect(name, result) ==
    /\ pc = "ready"
    /\ pc' = name
    /\ verdict' = result
    /\ UNCHANGED <<norm, cust, primary, client_map, file, i, st, prev, rows,
                   files, errors, counts>>

CallLooksLikeFedEx == Detect("looks_like_fedex", looks_like_fedex(file.text))
CallLooksLikeLightning == Detect("looks_like_lightning", looks_like_lightning(file.text))

Next ==
    \/ CallFedExParse \/ CallLightningParse \/ CallGenericParser
    \/ CallProcessFileAuto \/ CallLooksLikeFedEx \/ CallLooksLikeLightning

Spec == Init /\ [][Next]_vars

(***************************************************************************)
(* LightningParser.parse applied to a text of reference blocks.  A text is *)
(* a preamble and at most MaxBlocks blocks; a block is its "Billing        *)
(* Reference 1" line, then a date, an order line and the totals line of    *)
(* its reference, each present or not.  No block has a date and a totals   *)
(* line without an order line between them: ORDER_ID_FALLBACK reads the    *)
(* characters after the date, and the first long number there is then the  *)
(* number of the order line.                                               *)
(***************************************************************************)
Ref2222222 == <<"2", "2", "2", "2", "2", "2", "2">>
Date0102 == <<"%m/%d/%Y", "2025-01-02">>
Date0109 == <<"%m/%d/%Y", "2025-01-09">>
RefStartLine(ref) == Line("Billing Reference 1", ref, <<>>)
RefTotalLine(ref, amt) == Line("Totals: Billing Reference 1", ref, amt)
DateLine(d) == Line("Date", <<>>, d)
OrderIdLine(id, caller) == Line("Order ID", <<id>>, caller)
NumberLine(id, caller) == Line("Number", <<id>>, caller)
LightningHeaderLine == Line("Lightning header", <<"4567">>, Date0109)

LightningBlocks ==
    {<<RefStartLine(ref)>> \o dt \o ord \o (IF tot THEN <<RefTotalLine(ref, Amt3500)>> ELSE <<>>) :
        ref \in {Ref1111111, Ref2222222},
        dt \in {<<>>, <<DateLine(Date0102)>>},
        ord \in {<<>>, <<OrderIdLine("58939", <<"M", "a", "r", "i", "n", "e">>)>>,
                 <<NumberLine("58940", <<"B", "o", "b">>)>>},
        tot \in BOOLEAN}
    \ {<<RefStartLine(ref), DateLine(Date0102), RefTotalLine(ref, Amt3500)>> :
        ref \in {Ref1111111, Ref2222222}}

LightningPreambles ==
    {<<>>, <<LightningHeaderLine>>,
     <<LightningHeaderLine, RefTotalLine(Ref1111111, Amt123400)>>}

LightningTexts ==
    {pre \o Concat(bs) : pre \in LightningPreambles, bs \in SeqsUpTo(LightningBlocks, MaxBlocks)}

InitLightning ==
    /\ verdict = FALSE /\ files = <<>> /\ errors = <<>> /\ counts = NoCounts
    /\ file \in {[name |-> FileName, mb |-> 1, text |-> t] : t \in LightningTexts}
    /\ client_map = <<[k |-> Ref1111111, v |-> Code(1)]>>
    /\ pc = "ready" /\ rows = <<>>
    /\ i = 0 /\ st = NoState /\ prev = NoState
    /\ norm = <<>> /\ cust = EmptyStr /\ primary = NoneV

NextLightning == CallLightningParse

SpecLightning == InitLightning /\ [][NextLightning]_vars

(***************************************************************************)
(* AppBase.run_analyze over a folder of files.  A file of the folder has,  *)
(* besides its name, size and text, what processing it raises: nothing,    *)
(* an exception in read_pdf_text ("read") or an OSError of                 *)
(* file_path.stat() in process_file_auto ("stat").  The file at place j of *)
(* the folder is named fj.pdf.  rows starts as the rows of an earlier run  *)
(* or empty.                                                               *)
(***************************************************************************)
MaxFiles == 3

\* The map after map_primary_from_custref(cust_ref, m): the function reads
\* m.items() and stores nothing.  MapCachesLookup is the function, were it
\* to keep the code it found under the reference it was asked for.
MapCachesLookup(cust_ref, m) ==
    LET code == map_primary_from_custref(cust_ref, m)
    IN IF code # EmptyStr /\ \A n \in 1..Len(m) : m[n].k # soft_clean(cust_ref)
       THEN Append(m, [k |-> soft_clean(cust_ref), v |-> code])
       ELSE m

MapAfterLookup(cust_ref, m) == m

\* The map after the lookups made for the rows of a parse, one a row.
RECURSIVE MapAfterRows(_, _)
MapAfterRows(rs, m) ==
    IF rs = <<>> THEN m
    ELSE MapAfterRows(Tail(rs), MapAfterLookup(Head(rs).FedEx_CustRef, m))

ErrorOf(f) == f.name \o <<": ", f.raises>>

Counted(c, text) ==
    IF looks_like_fedex(text) THEN [c EXCEPT !.fedex_count = @ + 1]
    ELSE IF looks_like_lightning(text) THEN [c EXCEPT !.lightning_count = @ + 1]
    ELSE [c EXCEPT !.generic_count = @ + 1]

\* LoopBody, were the rows collected so far lost when a file raises.
LoopBodyLosesRows(acc, f, m) ==
    IF f.raises = "read"
    THEN [rows |-> <<>>, errors |-> Append(acc.errors, ErrorOf(f)), counts |-> acc.counts]
    ELSE IF f.raises = "stat"
    THEN [rows |-> <<>>, errors |-> Append(acc.errors, ErrorOf(f)),
          counts |-> Counted(acc.counts, f.text)]
    ELSE LET r == process_file_auto(f, m)
         IN [rows |-> acc.rows \o r, errors |-> acc.errors,
             counts |-> [Counted(acc.counts, f.text) EXCEPT !.total_rows = @ + Len(r)]]

\* LoopBody, were the rows of a file put before the rows collected so far.
LoopBodyPrepends(acc, f, m) ==
    IF f.raises = "read"
    THEN [acc EXCEPT !.errors = Append(@, ErrorOf(f))]
    ELSE IF f.raises = "stat"
    THEN [acc EXCEPT !.errors = Append(@, ErrorOf(f)),
                     !.counts = Counted(@, f.text)]
    ELSE LET r == process_file_auto(f, m)
         IN [rows |-> r \o acc.rows, errors |-> acc.errors,
             counts |-> [Counted(acc.counts, f.text) EXCEPT !.total_rows = @ + Len(r)]]

\* The body of "for f in files": acc is [rows, errors, counts].  Failed is
\* the except clause, Collected what follows the return of
\* process_file_auto with the rows r.
Failed(acc, f) == [acc EXCEPT !.errors = Append(@, ErrorOf(f))]
Collected(acc, f, r) ==
    [rows |-> acc.rows \o r, errors |-> acc.errors,
     counts |-> [Counted(acc.counts, f.text) EXCEPT !.total_rows = @ + Len(r)]]
LoopBody(acc, f, m) ==
    IF f.raises = "read" THEN Failed(acc, f)
    ELSE IF f.raises = "stat"
    THEN Failed([acc EXCEPT !.counts = Counted(@, f.text)], f)
    ELSE Collected(acc, f, process_file_auto(f, m))

FedExText2 ==
    <<Line("FedEx", <<>>, <<>>),
      ShipDateLine, TrackingLine("111111111"), CustRefLine(<<"a", "1">>), TotalLine(Amt4500),
      ShipDateLine, TrackingLine("222222222"), TotalLine(Amt104550)>>
LightningText1 ==
    <<RefStartLine(Ref1111111), DateLine(Date0102),
      OrderIdLine("58939", <<"M", "a", "r", "i", "n", "e">>),
      RefTotalLine(Ref1111111, Amt3500)>>
GenericText1 == <<Line("Invoice Number:", <<"A-1">>, <<>>), Line("Total:", Amt123400, <<>>)>>

FileKinds ==
    {[mb |-> 1, text |-> FedExText2, raises |-> "none"],
     [mb |-> 1, text |-> LightningText1, raises |-> "none"],
     [mb |-> 1, text |-> GenericText1, raises |-> "none"],
     [mb |-> MAX_FILE_MB + 1, text |-> FedExText2, raises |-> "none"],
     [mb |-> 1, text |-> FedExText2, raises |-> "stat"],
     [mb |-> 1, text |-> LightningText1, raises |-> "read"]}

NameAt(j) == <<"f", ToString(j), ".pdf">>
Folder(ks) ==
    [j \in 1..Len(ks) |->
        [name |-> NameAt(j), mb |-> ks[j].mb, text |-> ks[j].text, raises |-> ks[j].raises]]
Folders == {Folder(ks) : ks \in SeqsUpTo(FileKinds, MaxFiles)}

BatchMap == <<[k |-> RefA1, v |-> Code(1)]>>

InitBatch ==
    /\ verdict = FALSE /\ errors = <<>> /\ counts = NoCounts
    /\ files \in Folders
    /\ client_map \in {<<>>, BatchMap}
    /\ rows \in {<<>>, generic_invoice_parser(<<>>, <<"old.pdf">>)}
    /\ pc = "ready" /\ file = NoFile
    /\ i = 0 /\ st = NoState /\ prev = NoState
    /\ norm = <<>> /\ cust = EmptyStr /\ primary = NoneV

\* run_analyze up to its loop: path_entry is empty, names nothing, or names
\* the folder (a single file is a folder of one).
AnalyzeBegin ==
    /\ pc = "ready"
    /\ rows' = <<>>
    /\ \E path \in {"", "missing", "found"} :
          IF path = "found"
          THEN pc' = "analyzing" /\ files' = files
          ELSE pc' = "returned" /\ files' = <<>>
    /\ i' = 0 /\ errors' = <<>> /\ counts' = NoCounts
    /\ UNCHANGED <<norm, cust, primary, client_map, file, st, prev, verdict>>

\* One pass of "for f in files".  The rows the pass added to rows are the
\* rows parsed, each of them after one lookup in client_map.
AnalyzeFile ==
    /\ pc = "analyzing" /\ i < Len(files)
    /\ \E acc \in {LoopBody([rows |-> rows, errors |-> errors, counts |-> counts],
                             files[i + 1], client_map)} :
          /\ rows' = acc.rows /\ errors' = acc.errors /\ counts' = acc.counts
          /\ client_map' = MapAfterRows(SubSeq(acc.rows, Len(rows) + 1, Len(acc.rows)),
                                        client_map)
    /\ file' = files[i + 1]
    /\ i' = i + 1
    /\ UNCHANGED <<norm, cust, primary, pc, st, prev, verdict, files>>

\* run_analyze after its loop: the table and the status line.
AnalyzeEnd ==
    /\ pc = "analyzing" /\ i = Len(files)
    /\ pc' = "analyzed"
    /\ UNCHANGED <<norm, cust, primary, client_map, file, i, st, prev, rows,
                   verdict, files, errors, counts>>

NextBatch == AnalyzeBegin \/ AnalyzeFile \/ AnalyzeEnd

SpecBatch == InitBatch /\ [][NextBatch]_vars

(***************************************************************************)
(* FedExParser.parse applied to a text with lines of other charges: at     *)
(* most MaxCharges such lines, then a block or none, then at most one more *)
(* such line.  The amount of a line is a number or the lone ".", which     *)
(* both expressions accept and float() does not.                           *)
(***************************************************************************)
MaxCharges == 2
Amt300 == <<"3", ".", "0", "0">>
ChargeLines ==
    {OtherChargesLine(Amt500), OtherChargesLine(<<".">>),
     LateFeeLine(Amt300), LateFeeLine(<<".">>)}
ChargeBlocks ==
    {<<>>, <<ShipDateLine, TotalLine(Amt4500)>>,
     <<ShipDateLine, SenderLine(<<"ACME", "CO">>), CustRefLine(RefA1), TotalLine(Amt4500)>>}
ChargeTexts ==
    {pre \o blk \o post : pre \in SeqsUpTo(ChargeLines, MaxCharges), blk \in ChargeBlocks,
                          post \in SeqsUpTo(ChargeLines, 1)}

InitCharges ==
    /\ verdict = FALSE /\ files = <<>> /\ errors = <<>> /\ counts = NoCounts
    /\ file \in {[name |-> FileName, mb |-> 1, text |-> t] : t \in ChargeTexts}
    /\ client_map = FedExMap
    /\ pc = "ready" /\ rows = <<>>
    /\ i = 0 /\ st = NoState /\ prev = NoState
    /\ norm = <<>> /\ cust = EmptyStr /\ primary = NoneV

NextCharges == CallFedExParse

SpecCharges == InitCharges /\ [][NextCharges]_vars

(***************************************************************************)
(* Properties of FedExParser.parse (SpecFedEx).  While pc is "blocks" or   *)
(* "done" and i >= 1, st is what parse holds after block i and prev what   *)
(* it held before it.                                                      *)
(***************************************************************************)
IsNumber(v) == DOMAIN v = {"float"}
IsShipmentRow(r) == r.Description = <<"FedEx">>
ShipmentRows(rs) == {j \in 1..Len(rs) : IsShipmentRow(rs[j])}
HasRefOrSender(f) == Truthy(f.cust_line) \/ Truthy(f.sender)
HasSignal(f) == Truthy(f.sender) \/ Truthy(f.cust_line) \/ f.continued \/ f.tracking # NoneV
SameTracking(pd, f) == f.tracking # NoneV /\ pd.tracking # NoneV /\ f.tracking = pd.tracking
OwnFields(f) == [tracking |-> f.tracking, cust |-> f.cust_line, sender |-> f.sender]

\* C1: every shipment row (Description "FedEx") that FedExParser.parse has
\* emitted, at any point of the walk and in what it returns, holds a number
\* in Amount: no row is emitted, directly or by a merge with the pending
\* shipment, without a resolved total.
C1ShipmentRowsHaveAmount ==
    /\ \A j \in ShipmentRows(st.rows) : IsNumber(st.rows[j].Amount)
    /\ \A j \in ShipmentRows(rows) : IsNumber(rows[j].Amount)

\* A text classified FedEx, where the block walked last completed the
\* pending shipment and a row was emitted by the merge.
C1Witness ==
    /\ pc = "blocks" /\ i >= 2
    /\ looks_like_fedex(file.text)
    /\ prev.pending # NoneV /\ st.pending = NoneV
    /\ Len(st.rows) = Len(prev.rows) + 1
    /\ IsNumber(st.rows[Len(st.rows)].Amount)

\* Two blocks of one shipment: the same tracking id, the reference and the
\* sender in the first only, the total in the second only.
C2Pair(f1, f2) ==
    /\ f1.tracking # NoneV /\ f1.tracking = f2.tracking
    /\ HasRefOrSender(f1) /\ f1.total_amt = NoneV
    /\ ~HasRefOrSender(f2) /\ f2.total_amt # NoneV

C2MergeStep ==
    (/\ pc = "blocks" /\ i >= 1 /\ i < Len(Blocks)
     /\ C2Pair(BlockFields(Blocks[i]), BlockFields(Blocks[i + 1]))
     /\ ~(prev.pending # NoneV /\ SameTracking(prev.pending[1], BlockFields(Blocks[i]))))
    => LET f1 == BlockFields(Blocks[i])
           f2 == BlockFields(Blocks[i + 1])
           row == st'.rows[Len(st'.rows)]
       IN /\ Len(st'.rows) = Len(prev.rows) + 1
          /\ SubSeq(st'.rows, 1, Len(prev.rows)) = prev.rows
          /\ st'.pending = NoneV
          /\ IsShipmentRow(row)
          /\ row.FedEx_CustRef = soft_clean(OrEmpty(f1.cust_line))
          /\ row.FedEx_Sender = OrEmpty(f1.sender)
          /\ row.Amount = f2.total_amt[1]

\* C2: two consecutive blocks with the same tracking id, of which only the
\* first has a reference or a sender and only the second has a total (the
\* first not continuing a shipment already pending), yield exactly one
\* shipment row between them, with the reference and the sender of the
\* first block and the total of the second.
C2Merge == [][C2MergeStep]_vars

\* Such a pair has been walked: the first block was pending with its own
\* fields, the second emitted the row.
C2Witness ==
    /\ pc = "blocks" /\ i >= 2
    /\ C2Pair(BlockFields(Blocks[i - 1]), BlockFields(Blocks[i]))
    /\ prev.pending = Some(OwnFields(BlockFields(Blocks[i - 1])))
    /\ Truthy(prev.pending[1].cust) /\ Truthy(prev.pending[1].sender)
    /\ st.pending = NoneV
    /\ Len(st.rows) = Len(prev.rows) + 1
    /\ st.rows[Len(st.rows)].FedEx_Sender = prev.pending[1].sender[1]

\* C3: when a shipment is pending and the next block has no total and not
\* the tracking id of the pending shipment, no row is emitted for the
\* pending shipment, and the block is evaluated as with nothing pending:
\* it becomes the pending shipment, with its own fields only, if it has a
\* sender, a reference, a continuation marker or a tracking id, and nothing
\* is pending otherwise.
C3Drop ==
    (/\ pc \in {"blocks", "done"} /\ i >= 1
     /\ prev.pending # NoneV
     /\ ~SameTracking(prev.pending[1], BlockFields(Blocks[i]))
     /\ BlockFields(Blocks[i]).total_amt = NoneV)
    => /\ st.rows = prev.rows
       /\ st.pending = IF HasSignal(BlockFields(Blocks[i]))
                       THEN Some(OwnFields(BlockFields(Blocks[i])))
                       ELSE NoneV

\* A pending shipment with a tracking id and a reference was followed by a
\* block with another tracking id and no total: it is gone, no row added.
C3Witness ==
    /\ pc = "blocks" /\ i >= 2
    /\ prev.pending # NoneV
    /\ prev.pending[1].tracking # NoneV /\ Truthy(prev.pending[1].cust)
    /\ BlockFields(Blocks[i]).tracking # NoneV
    /\ BlockFields(Blocks[i]).tracking # prev.pending[1].tracking
    /\ BlockFields(Blocks[i]).total_amt = NoneV
    /\ st.rows = prev.rows
    /\ st.pending # prev.pending

(***************************************************************************)
(* Properties of the calls (Spec): pc names the call made, rows holds      *)
(* what it returned.                                                       *)
(***************************************************************************)
\* The decision table, for a file within the size limit.
C4Table ==
    LET f == FedExParse(file.text, file.name, client_map)
        l == LightningParse(file.text, file.name, client_map)
    IN IF looks_like_fedex(file.text) THEN f
       ELSE IF looks_like_lightning(file.text) THEN l
       ELSE IF Len(l) > Len(f) THEN l
       ELSE IF Len(f) > Len(l) THEN f
       ELSE IF Len(l) > 0 THEN l
       ELSE generic_invoice_parser(file.text, file.name)

C5Idempotent == Len(norm) >= 3 => norm[3] = norm[2]

(***************************************************************************)
(* Properties of map_primary_from_custref (SpecMap): primary is what it    *)
(* returned for cust and client_map.                                       *)
(***************************************************************************)
Min(S) == CHOOSE n \in S : \A m \in S : n <= m
EqualAnyCase(r, k) == str_lower(r) = str_lower(k)
ContainsKey(r, k) == k # <<>> /\ Contains(str_lower(r), str_lower(k))
\* The places of the keys that the reference r equals in some casing or
\* contains.
MatchingKeys(r) ==
    {n \in 1..Len(client_map) :
        EqualAnyCase(r, client_map[n].k) \/ ContainsKey(r, client_map[n].k)}

C7TiersInOrder ==
    primary # NoneV =>
        LET ref == soft_clean(cust)
            T1 == {n \in 1..Len(client_map) : client_map[n].k = ref}
            T2 == {n \in 1..Len(client_map) : EqualAnyCase(ref, client_map[n].k)}
            T3 == {n \in 1..Len(client_map) : ContainsKey(ref, client_map[n].k)}
        IN primary[1] = IF cust = <<>> \/ client_map = <<>> THEN EmptyStr
                        ELSE IF T1 # {} THEN client_map[Min(T1)].v
                        ELSE IF T2 # {} THEN client_map[Min(T2)].v
                        ELSE IF T3 # {} THEN client_map[Min(T3)].v
                        ELSE EmptyStr

\* No key equals the reference; the second key equals it ignoring case,
\* the first is contained in it: the code is the second key's.
C7Witness ==
    /\ primary # NoneV /\ Len(client_map) = 2
    /\ client_map[1].k # soft_clean(cust) /\ client_map[2].k # soft_clean(cust)
    /\ ~EqualAnyCase(soft_clean(cust), client_map[1].k)
    /\ ContainsKey(soft_clean(cust), client_map[1].k)
    /\ EqualAnyCase(soft_clean(cust), client_map[2].k)
    /\ primary[1] = client_map[2].v

C9AmountNumericOrEmpty ==
    \A j \in 1..Len(rows) : IsNumber(rows[j].Amount) \/ rows[j].Amount = StrV(EmptyStr)

\* C10: every row that any of the parsers or process_file_auto returns has
\* exactly the 13 fields of COLUMNS_UNIFIED, the fields with no value too.
C10RowShape ==
    /\ Cardinality(COLUMNS_UNIFIED) = 13
    /\ \A j \in 1..Len(rows) : DOMAIN rows[j] = COLUMNS_UNIFIED

\* FedExParser.parse has returned a shipment row with no sender and no
\* reference, and the other charges row.
C10Witness ==
    /\ pc = "FedExParser.parse" /\ Len(rows) = 2
    /\ rows[1].Description = <<"FedEx">> /\ rows[1].FedEx_Sender = EmptyStr
    /\ rows[1].FedEx_CustRef = EmptyStr
    /\ rows[2].Description = <<"FedEx Other Charges">>

(***************************************************************************)
(* Properties of LightningParser.parse (SpecLightning): rows[j] is the row *)
(* of the j-th reference block of file.text.                               *)
(***************************************************************************)
\* The line at which the j-th reference block starts.
RECURSIVE NthStart(_, _)
NthStart(S, j) == IF j = 1 THEN Min(S) ELSE NthStart(S \ {Min(S)}, j - 1)
RefBlock(j) ==
    LET s == NthStart(RefStarts(file.text), j)
    IN SubSeq(file.text, s, RefEnd(file.text, s))
HasDateLine(blk) == \E n \in 1..Len(blk) : blk[n].k = "Date"
HasOrderId(blk) ==
    \/ \E n \in 1..Len(blk) : blk[n].k = "Order ID"
    \/ \E n, m \in 1..Len(blk) : n < m /\ blk[n].k = "Date" /\ blk[m].k = "Number"
HasTotalsLine(ref) ==
    \E n \in 1..Len(file.text) :
        file.text[n].k = "Totals: Billing Reference 1" /\ file.text[n].a = ref
C11Case(j) ==
    /\ HasDateLine(RefBlock(j)) /\ HasOrderId(RefBlock(j))
    /\ ~HasTotalsLine(RefBlock(j)[1].a)

\* C11: for a reference block with a date and an order id whose reference
\* has no totals line in the text, the row LightningParser.parse returns
\* has the empty string in Amount, the date of the block (in ISO form) in
\* InvoiceDate and the reference in FedEx_CustRef.
C11NoTotalEmptyAmount ==
    pc = "LightningParser.parse" =>
        /\ Len(rows) = Cardinality(RefStarts(file.text))
        /\ \A j \in 1..Len(rows) :
              C11Case(j) =>
                 /\ rows[j].Amount = StrV(EmptyStr)
                 /\ rows[j].InvoiceDate = <<IsoFormat, "2025-01-02">>
                 /\ rows[j].FedEx_CustRef = RefBlock(j)[1].a
                 /\ rows[j].FedEx_CustRef # EmptyStr

\* Two blocks, the first with the total of its reference, the second with
\* a date and an order id and no total: its row has no Amount.
C11Witness ==
    /\ pc = "LightningParser.parse" /\ Len(rows) = 2
    /\ IsNumber(rows[1].Amount)
    /\ C11Case(2)
    /\ rows[2].Amount = StrV(EmptyStr)
    /\ rows[2].InvoiceDate # EmptyStr
    /\ rows[2].FedEx_Sender # EmptyStr

(***************************************************************************)
(* Properties of the vendor detection (Spec): verdict is what              *)
(* looks_like_fedex or looks_like_lightning returned for file.text.        *)
(***************************************************************************)
HasFedExBrand == "fedex" \in TextPhrases(file.text)
HasFedExAnchor == TextPhrases(file.text) \cap FedExAnchors # {}
HasLightningBrand == TextPhrases(file.text) \cap LightningBrands # {}
HasTwoLightningAnchors ==
    \E a, b \in LightningAnchors :
        a # b /\ a \in TextPhrases(file.text) /\ b \in TextPhrases(file.text)

\* C12: looks_like_fedex is true of a text with the brand "fedex" and one
\* of the FedEx anchors at least and false of a text without the brand;
\* looks_like_lightning is true of a text with one of the Lightning brand
\* phrases and of a text with two of the seven Lightning anchors at least.
C12Detection ==
    /\ pc = "looks_like_fedex" =>
          /\ ((HasFedExBrand /\ HasFedExAnchor) => verdict)
          /\ (~HasFedExBrand => ~verdict)
    /\ pc = "looks_like_lightning" =>
          ((HasLightningBrand \/ HasTwoLightningAnchors) => verdict)

\* A text with two Lightning anchors and no brand phrase, found to look
\* like Lightning.
C12Witness ==
    /\ pc = "looks_like_lightning" /\ verdict
    /\ HasTwoLightningAnchors /\ ~HasLightningBrand
    /\ Cardinality(TextPhrases(file.text) \cap LightningAnchors) = 2

(***************************************************************************)
(* Properties of AppBase.run_analyze (SpecBatch): i files of files are     *)
(* done, file is the one done last.                                        *)
(***************************************************************************)
\* C13: when the file at hand raises, run_analyze adds the message of that
\* file to errors, keeps the rows collected so far and goes on with the
\* next file; it ends only when every file is done.
C13Step ==
    /\ (pc = "analyzing" /\ i < Len(files) /\ files[i + 1].raises # "none") =>
          /\ pc' = "analyzing" /\ i' = i + 1 /\ files' = files
          /\ rows' = rows
          /\ Len(errors') = Len(errors) + 1
          /\ SubSeq(errors', 1, Len(errors)) = errors
          /\ SubSeq(errors'[Len(errors')], 1, 3) = files[i + 1].name
    /\ (pc = "analyzing" /\ i < Len(files) /\ files[i + 1].raises = "none") =>
          /\ pc' = "analyzing" /\ i' = i + 1 /\ files' = files
          /\ errors' = errors
    /\ pc' = "analyzed" => i' = Len(files')
C13NeverAborts == [][C13Step]_vars

\* A file that raises after a file that gave rows and before one that
\* gives rows: all three done, the rows of both collected.
C13Witness ==
    /\ pc = "analyzed" /\ Len(files) = 3
    /\ files[1].raises = "none" /\ files[2].raises # "none" /\ files[3].raises = "none"
    /\ Len(errors) = 1
    /\ \E n \in 1..Len(rows) : rows[n].InvoiceFileName = NameAt(1)
    /\ \E n \in 1..Len(rows) : rows[n].InvoiceFileName = NameAt(3)

\* The place in files of the file a row names.
FileIndexOf(r) == CHOOSE j \in 1..Len(files) : r.InvoiceFileName = NameAt(j)
RowsNaming(j) == SelectSeq(rows, LAMBDA r : r.InvoiceFileName = NameAt(j))

\* C14: after run_analyze every row of rows names a file of files, the rows
\* of a file come before the rows of every later file, and the rows of a
\* file are the rows process_file_auto returned for it, in its order.
C14RowsInFileOrder ==
    pc = "analyzed" =>
        /\ \A n \in 1..Len(rows) :
              \E j \in 1..Len(files) : rows[n].InvoiceFileName = NameAt(j)
        /\ \A n, m \in 1..Len(rows) :
              n < m => FileIndexOf(rows[n]) <= FileIndexOf(rows[m])
        /\ \A j \in 1..Len(files) :
              RowsNaming(j) = IF files[j].raises = "none"
                              THEN process_file_auto(files[j], client_map)
                              ELSE <<>>

\* Three files that give rows, the first of them two rows of different
\* amounts.
C14Witness ==
    /\ pc = "analyzed" /\ Len(files) = 3 /\ Len(rows) = 4
    /\ rows[1].InvoiceFileName = NameAt(1) /\ rows[2].InvoiceFileName = NameAt(1)
    /\ rows[1].Amount # rows[2].Amount
    /\ rows[3].InvoiceFileName = NameAt(2)
    /\ rows[4].InvoiceFileName = NameAt(3)

\* C16: no step of run_analyze, whatever the files parsed before, changes
\* client_map: the parsers and map_primary_from_custref leave every entry
\* of the map as it is and add none.
C16MapStep == client_map' = client_map
RowsOfKinds(kinds) == \A n \in 1..Len(rows) : rows[n].Description \in kinds

\* C15: every row process_file_auto returns for a file has the name of the
\* file in InvoiceFileName, and the rows of one call are all rows of
\* FedExParser, all rows of LightningParser or all rows of
\* generic_invoice_parser.
C15OneFileOneBranch ==
    pc = "process_file_auto" =>
        /\ \A n \in 1..Len(rows) : rows[n].InvoiceFileName = file.name
        /\ \/ RowsOfKinds({<<"FedEx">>, <<"FedEx Other Charges">>})
           \/ RowsOfKinds({<<"Lightning Messenger">>})
           \/ RowsOfKinds({<<"Generic Invoice">>})

\* A text neither predicate recognises, of which both parsers make rows:
\* the rows returned are those of LightningParser alone.
C15Witness ==
    /\ pc = "process_file_auto"
    /\ "fedex" \notin TextPhrases(file.text)
    /\ Cardinality(TextPhrases(file.text) \cap LightningAnchors) < 2
    /\ TextPhrases(file.text) \cap LightningBrands = {}
    /\ FedExParse(file.text, file.name, client_map) # <<>>
    /\ rows # <<>>
    /\ RowsOfKinds({<<"Lightning Messenger">>})

(***************************************************************************)
(* Properties of the blocks of FedExParser.parse (SpecFedEx).              *)
(***************************************************************************)
Max(S) == CHOOSE n \in S : \A m \in S : m <= n

\* The lines from the n-th "Ship Date:" of file.text to the line before the
\* next one, or to the end of the text when there is no next one.
ShipBlock(n) ==
    LET s == NthStart(ShipStarts(file.text), n)
        later == {j \in ShipStarts(file.text) : j > s}
    IN SubSeq(file.text, s, IF later = {} THEN Len(file.text) ELSE Min(later) - 1)

\* file.text up to its last "Ship Date:" line.
TextToLastStart ==
    IF ShipStarts(file.text) = {} THEN file.text
    ELSE SubSeq(file.text, 1, Max(ShipStarts(file.text)))

\* C17, as stated: what follows the last "Ship Date:" is in no block, so
\* the shipment rows parse returns are those it returns for the text cut
\* after its last "Ship Date:".
C17TailDiscarded ==
    pc = "done" =>
        SelectSeq(rows, IsShipmentRow)
          = SelectSeq(FedExParse(TextToLastStart, file.name, client_map), IsShipmentRow)

\* C17, amended: the blocks start at every "Ship Date:"; the n-th block
\* walked runs from the n-th "Ship Date:" to the next one, the last block
\* runs from the last "Ship Date:" to the end of the text, and only what
\* precedes the first "Ship Date:" is in no block.
C17Step ==
    /\ (pc = "blocks" /\ pc' = "blocks" /\ i' = i + 1) =>
          /\ i + 1 <= Cardinality(ShipStarts(file.text))
          /\ st' = ParseBlock(Context, st, BlockFields(ShipBlock(i + 1)))
    /\ (pc = "blocks" /\ pc' = "done") => i = Cardinality(ShipStarts(file.text))
C17BlocksRunToTheEnd == [][C17Step]_vars

\* A text with lines before its first "Ship Date:" and two blocks: the
\* last block, walked last, has the total of the row it gave.
C17Witness ==
    /\ pc = "done" /\ i = 2
    /\ Min(ShipStarts(file.text)) > 1
    /\ Max(ShipStarts(file.text)) < Len(file.text)
    /\ BlockFields(ShipBlock(2)).total_amt # NoneV
    /\ Len(st.rows) = Len(prev.rows) + 1
    /\ st.rows[Len(st.rows)].Amount = BlockFields(ShipBlock(2)).total_amt[1]

(***************************************************************************)
(* Properties of the pending shipment (SpecFedEx): block i was walked      *)
(* last, prev is [pending, rows] before it and st after it.                *)
(***************************************************************************)
WalkedBlock == BlockFields(Blocks[i])
Walked == pc \in {"blocks", "done"} /\ i >= 1
DifferentTracking(pd, f) ==
    f.tracking # NoneV /\ pd.tracking # NoneV /\ f.tracking # pd.tracking

\* What is left of the pending shipment after a block that did not take it
\* up: the rows grew by one row at most, a row of the fields of the block
\* alone, and what is pending now has the fields of the block alone.
PendingDropped ==
    /\ st.pending \in {NoneV, Some(OwnFields(WalkedBlock))}
    /\ Len(st.rows) \in {Len(prev.rows), Len(prev.rows) + 1}
    /\ SubSeq(st.rows, 1, Len(prev.rows)) = prev.rows
    /\ Len(st.rows) = Len(prev.rows) + 1 =>
          /\ st.rows[Len(st.rows)].FedEx_Sender = OrEmpty(WalkedBlock.sender)
          /\ st.rows[Len(st.rows)].FedEx_CustRef = soft_clean(OrEmpty(WalkedBlock.cust_line))

\* C18, as stated: when the block after a pending shipment has a tracking
\* id other than that of the pending shipment, no row gets the sender or
\* the reference of the pending shipment.
C18DifferentTrackingDrops ==
    (Walked /\ prev.pending # NoneV /\ DifferentTracking(prev.pending[1], WalkedBlock))
    => PendingDropped

\* C18, amended: when the block after a pending shipment has a tracking id
\* other than that of the pending shipment, and has not both a total and a
\* continuation marker, no row gets the sender or the reference of the
\* pending shipment.
C18DifferentShipmentDrops ==
    (/\ Walked /\ prev.pending # NoneV
     /\ DifferentTracking(prev.pending[1], WalkedBlock)
     /\ ~(WalkedBlock.total_amt # NoneV /\ WalkedBlock.continued))
    => PendingDropped

\* A pending shipment with a sender and a reference was followed by a block
\* with another tracking id, a total and neither sender nor reference: the
\* row of the block has neither.
C18Witness ==
    /\ Walked /\ prev.pending # NoneV
    /\ DifferentTracking(prev.pending[1], WalkedBlock)
    /\ Truthy(prev.pending[1].sender) /\ Truthy(prev.pending[1].cust)
    /\ WalkedBlock.total_amt # NoneV /\ ~WalkedBlock.continued
    /\ ~HasRefOrSender(WalkedBlock)
    /\ Len(st.rows) = Len(prev.rows) + 1
    /\ st.rows[Len(st.rows)].FedEx_Sender = EmptyStr
    /\ st.rows[Len(st.rows)].FedEx_CustRef = EmptyStr

\* C19: when a shipment is pending and the block has a total and no
\* tracking id, one row is emitted with the total of the block and the
\* sender and reference of the pending shipment (those of the block where
\* the pending shipment has none), and nothing is pending afterwards,
\* whatever the tracking id of the pending shipment.
C19NoTrackingMerges ==
    (/\ Walked /\ prev.pending # NoneV
     /\ WalkedBlock.total_amt # NoneV /\ WalkedBlock.tracking = NoneV)
    => LET pd == prev.pending[1]
           row == st.rows[Len(st.rows)]
       IN /\ Len(st.rows) = Len(prev.rows) + 1
          /\ SubSeq(st.rows, 1, Len(prev.rows)) = prev.rows
          /\ st.pending = NoneV
          /\ IsShipmentRow(row)
          /\ row.Amount = WalkedBlock.total_amt[1]
          /\ row.FedEx_Sender = IF Truthy(pd.sender) THEN pd.sender[1]
                                ELSE OrEmpty(WalkedBlock.sender)
          /\ row.FedEx_CustRef = soft_clean(IF Truthy(pd.cust) THEN pd.cust[1]
                                            ELSE OrEmpty(WalkedBlock.cust_line))

\* A pending shipment with a tracking id, a sender and a reference was
\* followed by a block with a total and nothing else: the row has them.
C19Witness ==
    /\ Walked /\ prev.pending # NoneV
    /\ prev.pending[1].tracking # NoneV
    /\ Truthy(prev.pending[1].sender) /\ Truthy(prev.pending[1].cust)
    /\ WalkedBlock.total_amt # NoneV /\ WalkedBlock.tracking = NoneV
    /\ ~WalkedBlock.continued /\ ~HasRefOrSender(WalkedBlock)
    /\ st.pending = NoneV
    /\ st.rows[Len(st.rows)].FedEx_Sender = prev.pending[1].sender[1]
    /\ st.rows[Len(st.rows)].FedEx_CustRef # EmptyStr

\* C20: when a shipment is pending and the block has its tracking id and
\* no total, no row is emitted and the shipment stays pending with its
\* tracking id; its reference and its sender stay as they are where it has
\* them and are those of the block where it has none.
C20SameTrackingWaits ==
    (/\ Walked /\ prev.pending # NoneV
     /\ SameTracking(prev.pending[1], WalkedBlock)
     /\ WalkedBlock.total_amt = NoneV)
    => LET pd == prev.pending[1]
       IN /\ st.rows = prev.rows
          /\ st.pending # NoneV
          /\ st.pending[1].tracking = pd.tracking
          /\ st.pending[1].cust = IF Truthy(pd.cust) THEN pd.cust ELSE WalkedBlock.cust_line
          /\ st.pending[1].sender = IF Truthy(pd.sender) THEN pd.sender
                                    ELSE WalkedBlock.sender

\* A pending shipment with a reference and no sender was followed by a
\* block with its tracking id, another reference, a sender and no total:
\* the reference is kept, the sender filled in.
C20Witness ==
    /\ Walked /\ prev.pending # NoneV
    /\ SameTracking(prev.pending[1], WalkedBlock)
    /\ WalkedBlock.total_amt = NoneV
    /\ Truthy(prev.pending[1].cust) /\ ~Truthy(prev.pending[1].sender)
    /\ Truthy(WalkedBlock.cust_line) /\ WalkedBlock.cust_line # prev.pending[1].cust
    /\ Truthy(WalkedBlock.sender)
    /\ st.pending # NoneV
    /\ st.pending[1].cust = prev.pending[1].cust
    /\ st.pending[1].sender = WalkedBlock.sender

(***************************************************************************)
(* Properties of what FedExParser.parse returns (SpecFedEx): at "done"     *)
(* rows is the list returned, st the [pending, rows] after the last block. *)
(***************************************************************************)
\* C21: a shipment still pending after the last block gives no row: parse
\* returns the rows emitted in the walk, followed at most by the row of the
\* other charges, and the block that left the shipment pending added no row.
C21PendingDroppedAtEnd ==
    /\ (Walked /\ st.pending # NoneV) => st.rows = prev.rows
    /\ (pc = "done" /\ st.pending # NoneV) =>
          /\ SelectSeq(rows, IsShipmentRow) = st.rows
          /\ Len(rows) \in {Len(st.rows), Len(st.rows) + 1}
          /\ \A n \in 1..Len(rows) : IsNumber(rows[n].Amount)

\* parse has returned while a shipment with a sender and a reference was
\* pending: no row has them.
C21Witness ==
    /\ pc = "done" /\ i >= 1
    /\ st.pending # NoneV
    /\ Truthy(st.pending[1].sender) /\ Truthy(st.pending[1].cust)
    /\ \A n \in 1..Len(rows) : rows[n].FedEx_Sender # st.pending[1].sender[1]

\* The blocks among the first n of file.text that have a total.
BlocksWithTotal(n) == {j \in 1..n : BlockFields(ShipBlock(j)).total_amt # NoneV}

\* C22: the shipment rows emitted are as many as the blocks with a total
\* walked: a block with a total adds one row, a block without one adds
\* none, and parse returns one shipment row for every block with a total.
C22OneRowPerTotal ==
    /\ Walked =>
          /\ Len(st.rows) = Cardinality(BlocksWithTotal(i))
          /\ Len(st.rows) = Len(prev.rows)
                            + (IF BlockFields(ShipBlock(i)).total_amt # NoneV THEN 1 ELSE 0)
    /\ pc = "done" =>
          Len(SelectSeq(rows, IsShipmentRow))
            = Cardinality(BlocksWithTotal(Cardinality(ShipStarts(file.text))))

\* Two blocks with the same fields and the same total: two equal rows.
C22Witness ==
    /\ pc = "done" /\ i = 2
    /\ ShipBlock(1) = ShipBlock(2)
    /\ Len(rows) >= 2 /\ rows[1] = rows[2]
    /\ IsShipmentRow(rows[1])
    /\ rows[1].FedEx_Sender # EmptyStr

(***************************************************************************)
(* Properties of the row of the other charges (SpecCharges): rows is what  *)
(* FedExParser.parse returned for file.text.                               *)
(***************************************************************************)
IsOtherChargesRow(r) == r.Description = <<"FedEx Other Charges">>
OtherChargesRows == {n \in 1..Len(rows) : IsOtherChargesRow(rows[n])}
LinesOfKind(k) == {n \in 1..Len(file.text) : file.text[n].k = k}

\* The amount found: that of the first "Other Charges" line if there is
\* one, else that of the first "Late Fee" line; None when there is neither
\* line or the amount is no number.
ChargesFound ==
    IF LinesOfKind("Other Charges") # {}
    THEN amount_to_float(Some(file.text[Min(LinesOfKind("Other Charges"))].a))
    ELSE IF LinesOfKind("Late Fee") # {}
    THEN amount_to_float(Some(file.text[Min(LinesOfKind("Late Fee"))].a))
    ELSE NoneV

RefsOfText == {file.text[n].a : n \in RefStarts(file.text)}
RowsOfRef(ref) == {n \in 1..Len(rows) : rows[n].FedEx_CustRef = ref}

\* C24: for every reference with a "Billing Reference 1 <ref>" line in the
\* text, LightningParser.parse returns exactly one row, also when the
\* reference has several such lines.
C24OneRowPerReference ==
    pc = "LightningParser.parse" =>
        \A ref \in RefsOfText : Cardinality(RowsOfRef(ref)) = 1

\* The totals lines of a reference in file.text.
TotalsLinesOf(ref) ==
    {n \in 1..Len(file.text) :
        file.text[n].k = "Totals: Billing Reference 1" /\ file.text[n].a = ref}

\* C25: every row of a reference that has totals lines in the text has in
\* Amount the amount of the last of them.
C25LastTotalWins ==
    pc = "LightningParser.parse" =>
        \A n \in 1..Len(rows) :
            TotalsLinesOf(rows[n].FedEx_CustRef) # {} =>
                rows[n].Amount
                  = amount_to_float(
                        Some(file.text[Max(TotalsLinesOf(rows[n].FedEx_CustRef))].b))[1]

\* A reference with a totals line of 1,234.00 and a later one of 35.00,
\* and two rows: both have 35.00.
C25Witness ==
    /\ pc = "LightningParser.parse" /\ Len(rows) = 2
    /\ rows[1].FedEx_CustRef = Ref1111111 /\ rows[2].FedEx_CustRef = Ref1111111
    /\ Cardinality(TotalsLinesOf(Ref1111111)) >= 2
    /\ file.text[Min(TotalsLinesOf(Ref1111111))].b = Amt123400
    /\ rows[1].Amount = Float(3500) /\ rows[2].Amount = Float(3500)

(***************************************************************************)
(* Properties of looks_like_lightning on a text without a brand phrase     *)
(* (Spec).                                                                 *)
(***************************************************************************)
\* The anchors of a line that are not part of a longer anchor of the line:
\* "billing reference 1" is part of "summary - billing reference 1" and of
\* "totals: billing reference 1".
SeparateAnchors(l) ==
    {a \in Phrases(l) \cap LightningAnchors :
        ~(/\ a = "billing reference 1"
          /\ Phrases(l) \cap {"summary - billing reference 1",
                              "totals: billing reference 1"} # {})}
RECURSIVE AnchorOccurrences(_)
AnchorOccurrences(text) ==
    IF text = <<>> THEN 0
    ELSE Cardinality(SeparateAnchors(Head(text))) + AnchorOccurrences(Tail(text))

\* C26: looks_like_lightning is true of a text without a brand phrase only
\* when two separate anchors at least occur in it; it is false of a text
\* in which one anchor phrase occurs once.
C26TwoSeparateAnchors ==
    (pc = "looks_like_lightning" /\ ~HasLightningBrand /\ verdict)
    => AnchorOccurrences(file.text) >= 2

(***************************************************************************)
(* generic_invoice_parser on invoices with date lines (SpecGeneric).       *)
(***************************************************************************)
DateLines ==
    {Line("Date due", <<>>, Date0109),
     Line("Date due", <<>>, <<"%B %d, %Y", "2025-01-09">>),
     Line("Date due", <<>>, <<"99/99/9999", "99/99/9999">>),
     Line("Date due", <<>>, <<IsoFormat, "2025-01-09">>),
     Line("Invoice Date", <<>>, Date0102),
     Line("Date of issue", <<>>, <<"%b %d, %Y", "2025-01-02">>),
     Line("Total Amount", Amt4500, <<>>),
     Line("text", <<"hello">>, <<>>)}

InitGeneric ==
    /\ verdict = FALSE /\ files = <<>> /\ errors = <<>> /\ counts = NoCounts
    /\ file \in {[name |-> FileName, mb |-> 1, text |-> t] : t \in SeqsUpTo(DateLines, MaxLines)}
    /\ client_map = <<>>
    /\ pc = "ready" /\ rows = <<>>
    /\ i = 0 /\ st = NoState /\ prev = NoState
    /\ norm = <<>> /\ cust = EmptyStr /\ primary = NoneV

NextGeneric == CallGenericParser

SpecGeneric == InitGeneric /\ [][NextGeneric]_vars

\* The lines of the text the dedicated due-date pattern matches.
DueMatches == {j \in 1..Len(file.text) : MatchesDateDue(file.text[j])}
FirstDueMatch == CHOOSE j \in DueMatches : \A h \in DueMatches : j <= h

\* C27: the DueDate of the row generic_invoice_parser returns is the first
\* "Date due" match passed through normalize_date: the ISO date when the
\* match parses, the matched string otherwise.
C27DueDateNormalized ==
    (pc = "generic_invoice_parser" /\ DueMatches # {})
    => rows[1].DueDate = normalize_date(file.text[FirstDueMatch].b)

(***************************************************************************)
(* LightningParser.extract_lightning_orders.  Its lines, besides those of  *)
(* LightningParser.parse:                                                  *)
(*   "Caller"       Caller <a>                                             *)
(*   "Order Total"  Order Total: $<a>                                      *)
(*   "Origin"       Origin <a>                                             *)
(*   "Destination"  Destination <a>                                        *)
(*   "Totals:"      Totals:                                                *)
(* A block is the dict of the code: a key it lacks maps to NoneV.          *)
(***************************************************************************)
BlockKeys == {"Billing Reference", "Order ID", "Caller", "Order Total", "Origin", "Destination"}
EmptyBlock == [k \in BlockKeys |-> NoneV]
NoOrders == [block |-> EmptyBlock, orders |-> <<>>]

NoCommas(a) ==
    LET NotComma(ch) == ch # ","
    IN SelectSeq(a, NotComma)

\* What the pattern of the key captures in line l (NoneV: no match).  The
\* reference pattern runs over letters, digits, hyphens and blanks, so on a
\* totals line it takes the reference and the word after it.
OrderCapture(key, l) ==
    CASE key = "Billing Reference" ->
           IF l.k \in {"Billing Reference 1", "Summary - Billing Reference 1"} THEN Some(l.a)
           ELSE IF l.k = "Totals: Billing Reference 1"
                THEN Some(l.a \o <<" ", "T", "o", "t", "a", "l">>)
           ELSE NoneV
      [] key = "Order ID" -> IF l.k = "Order ID" THEN Some(l.a) ELSE NoneV
      [] key = "Caller" -> IF l.k = "Caller" THEN Some(l.a) ELSE NoneV
      [] key = "Order Total" -> IF l.k = "Order Total" THEN Some(NoCommas(l.a)) ELSE NoneV
      [] key = "Origin" -> IF l.k = "Origin" THEN Some(l.a) ELSE NoneV
      [] key = "Destination" -> IF l.k = "Destination" THEN Some(l.a) ELSE NoneV

\* re.search(r'Totals?:', line, re.I)
MatchesTotalsColon(l) ==
    l.k \in {"Totals:", "Totals: Billing Reference 1", "Order Total", "Total:"}

\* The body of the loop over the lines: s is [block, orders] before line l.
OrdersLine(l, s) ==
    LET saved == OrderCapture("Billing Reference", l) # NoneV /\ s.block # EmptyBlock
        orders1 == IF saved THEN Append(s.orders, s.block) ELSE s.orders
        block0 == IF saved THEN EmptyBlock ELSE s.block
        block1 == [k \in BlockKeys |->
                      IF OrderCapture(k, l) # NoneV THEN OrderCapture(k, l) ELSE block0[k]]
    IN IF MatchesTotalsColon(l) /\ block1 # EmptyBlock
       THEN [block |-> EmptyBlock, orders |-> Append(orders1, block1)]
       ELSE [block |-> block1, orders |-> orders1]

RECURSIVE OrdersWalk(_, _, _)
OrdersWalk(text, j, s) ==
    IF j > Len(text) THEN s ELSE OrdersWalk(text, j + 1, OrdersLine(text[j], s))

\* The trailing block, and the file name added to each order.
OrdersReturn(s, file_name) ==
    LET all == IF s.block # EmptyBlock THEN Append(s.orders, s.block) ELSE s.orders
    IN [n \in 1..Len(all) |->
           [k \in BlockKeys \cup {"InvoiceFileName"} |->
               IF k = "InvoiceFileName" THEN Some(file_name) ELSE all[n][k]]]

extract_lightning_orders(text, file_name) ==
    OrdersReturn(OrdersWalk(text, 1, NoOrders), file_name)

(***************************************************************************)
(* extract_lightning_orders line by line (SpecOrders): while pc is "lines" *)
(* or "orders" and i >= 1, st is what the routine holds after line i and   *)
(* prev what it held before it.                                            *)
(***************************************************************************)
OrderLines ==
    {Line("Billing Reference 1", Ref1111111, <<>>),
     Line("Billing Reference 1", Ref2222222, <<>>),
     Line("Totals: Billing Reference 1", Ref1111111, Amt3500),
     Line("Order ID", <<"58939">>, <<"M", "a", "r", "i", "n", "e">>),
     Line("Caller", <<"Bob", "Smith">>, <<>>),
     Line("Order Total", Amt123400, <<>>),
     Line("Origin", <<"12", "Main", "St">>, <<>>),
     Line("Destination", <<"9", "Elm", "Ave">>, <<>>),
     Line("Totals:", <<>>, <<>>),
     Line("text", <<"hello">>, <<>>)}

InitOrders ==
    /\ verdict = FALSE /\ files = <<>> /\ errors = <<>> /\ counts = NoCounts
    /\ file \in {[name |-> FileName, mb |-> 1, text |-> t] : t \in SeqsUpTo(OrderLines, MaxLines)}
    /\ client_map = <<>>
    /\ pc = "ready" /\ rows = <<>>
    /\ i = 0 /\ st = NoOrders /\ prev = NoOrders
    /\ norm = <<>> /\ cust = EmptyStr /\ primary = NoneV

OrdersBegin ==
    /\ pc = "ready"
    /\ pc' = "lines" /\ i' = 0 /\ st' = NoOrders /\ prev' = NoOrders
    /\ UNCHANGED <<norm, cust, primary, client_map, file, rows, verdict, files, errors, counts>>

OrdersNext ==
    /\ pc = "lines" /\ i < Len(file.text)
    /\ i' = i + 1 /\ prev' = st /\ st' = OrdersLine(file.text[i + 1], st)
    /\ UNCHANGED <<norm, cust, primary, client_map, file, pc, rows, verdict, files, errors, counts>>

OrdersEnd ==
    /\ pc = "lines" /\ i = Len(file.text)
    /\ pc' = "orders" /\ rows' = OrdersReturn(st, file.name)
    /\ UNCHANGED <<norm, cust, primary, client_map, file, i, st, prev, verdict, files, errors, counts>>

NextOrders == OrdersBegin \/ OrdersNext \/ OrdersEnd

SpecOrders == InitOrders /\ [][NextOrders]_vars

OrdersWalked == pc \in {"lines", "orders"} /\ i >= 1
StartsReference(l) == OrderCapture("Billing Reference", l) # NoneV
IsTotalsLine(l) == l.k \in {"Totals:", "Totals: Billing Reference 1"}
FieldOnlyLine(l) == l.k \in {"Order ID", "Caller", "Order Total", "Origin", "Destination"}
KeysOf(b) == {k \in BlockKeys : b[k] # NoneV}

\* C28: a line puts a block on the list only when it starts a billing
\* reference or is a "Totals:" line; a line with only an order id, a caller,
\* an order total, an origin or a destination adds its field to the current
\* block and leaves the block open; the trailing block is put on the list at
\* the end of the input; no block of the list is empty.
C28BlocksCloseAtReferenceOrTotals ==
    /\ OrdersWalked =>
         /\ (Len(st.orders) > Len(prev.orders))
              => (StartsReference(file.text[i]) \/ IsTotalsLine(file.text[i]))
         /\ FieldOnlyLine(file.text[i])
              => /\ st.orders = prev.orders
                 /\ KeysOf(prev.block) \subseteq KeysOf(st.block)
                 /\ KeysOf(st.block) # {}
         /\ \A n \in 1..Len(st.orders) : KeysOf(st.orders[n]) # {}
    /\ pc = "orders" =>
         /\ Len(rows) = Len(st.orders) + (IF st.block # EmptyBlock THEN 1 ELSE 0)
         /\ \A n \in 1..Len(rows) : KeysOf(rows[n]) # {}

(***************************************************************************)
(* The pending register of FedExParser.parse (SpecFedEx).                  *)
(***************************************************************************)
\* C29: after a block is processed, pending is set exactly when the block
\* had no total and had a sender, a reference, a continuation marker or a
\* tracking id; after a block with a total pending is empty.
C29PendingRegister ==
    Walked =>
        /\ (st.pending # NoneV)
             <=> (WalkedBlock.total_amt = NoneV /\ HasSignal(WalkedBlock))
        /\ WalkedBlock.total_amt # NoneV => st.pending = NoneV
        /\ Len(st.pending) <= 1

C29Witness ==
    /\ Walked /\ pc = "blocks"
    /\ prev.pending # NoneV
    /\ WalkedBlock.total_amt # NoneV
    /\ st.pending = NoneV
    /\ Len(st.rows) = Len(prev.rows) + 1

(***************************************************************************)
(* The empty result of process_file_auto (Spec).                           *)
(***************************************************************************)
ClassifiedFedEx == looks_like_fedex(file.text)
ClassifiedLightning == ~looks_like_fedex(file.text) /\ looks_like_lightning(file.text)
WithinSizeLimit == file.mb <= MAX_FILE_MB

=============================================================================
